---- MODULE Spec2Model ----
(***************************************************************************)
(* A state-machine model of vllm/engine/llm_engine.py (class LLMEngine):   *)
(* add_request, abort_request and step, with the asynchronous output       *)
(* processing queue, the multi-step cache and the per-virtual-engine       *)
(* schedulers.  The Scheduler, the block manager, the output processor and *)
(* the model executor are collaborators whose code is not part of the      *)
(* engine file; they are modelled from the engine specification (sections  *)
(* 4.1, 4.2, 4.4, 4.5 and 5) and are marked as such where they are         *)
(* defined.                                                                *)
(***************************************************************************)
EXTENDS Integers, Sequences, FiniteSets, TLC

(***************************************************************************)
(* Bounds of the model.                                                    *)
(***************************************************************************)
MaxGroups == 2          \* sequence-group objects alive at the same time
MaxRequestId == 2       \* request ids are 1..MaxRequestId
MaxPrompt == 2          \* longest ordinary prompt, in tokens
MaxTokens == 2          \* largest sampling_params.max_tokens
MaxModelLen == 7        \* scheduler_config.max_model_len
BlockSize == 2          \* cache_config.block_size
NumGpuBlocks == 3       \* cache_config.num_gpu_blocks
MaxNumSeqs == 2         \* scheduler_config.max_num_seqs
MaxNumBatchedTokens == 6 \* scheduler_config.max_num_batched_tokens
MaxLogprobs == 1        \* model_config.max_logprobs
MaxOutputs == 2         \* an over-long prompt is submitted only while
                        \* self.request_outputs is shorter than this
MaxSteps == 3           \* largest scheduler_config.num_scheduler_steps
MaxN == 2               \* largest sampling_params.n
MaxSeqs == 3            \* Sequence objects a block manager serves at a time
NumCpuBlocks == 2       \* cache_config.num_cpu_blocks (the host pool)

Slots == 1..MaxGroups
RequestIds == 1..MaxRequestId

\* tokenizer.eos_token_id, as _get_eos_token_id returns it
EosTokenId == 0
\* the ids a sampler can return: the EOS id and one ordinary id
TokenIds == {EosTokenId, 1}

\* the values of the configuration the engine is constructed with
NumSchedulerSteps == {1, 2}
PipelineParallelSizes == {1, 2}

VARIABLES
    cfg,              \* the configuration objects given to __init__
    grp,              \* the SequenceGroup objects (one Sequence each), by slot
    sched,            \* self.scheduler: one scheduler per virtual engine
    output_queue,     \* self.output_queue
    request_outputs,  \* self.request_outputs
    cached,           \* self.cached_scheduler_outputs[0]
    op,               \* the last public call and its arguments
    err,              \* the exception the last public call raised, or "none"
    batch,            \* the groups of the ExecuteModelRequest of the last step()
    stale,            \* how many RequestOutputs the last step() returned that
                      \* were in self.request_outputs before the call
    dropped,          \* the RequestOutputs the last step() created and did
                      \* not return
    bm,               \* a block manager with the identity of its blocks:
                      \* the block tables, the ref-counts and the free lists
    decoder_input_ids \* the argument and the result of the calls of
                      \* _prepare_decoder_input_ids_for_generation

vars == <<cfg, grp, sched, output_queue, request_outputs, cached, op, err,
          batch, stale, dropped, bm, decoder_input_ids>>

(***************************************************************************)
(* Sequence groups.  add_request builds every group with one Sequence      *)
(* (seqs=[seq]); the model keeps that sequence's fields in the group.  A   *)
(* group whose sampling_params.n is greater than one gets n samples for    *)
(* its prompt and has n sequences afterwards; the model keeps the first of *)
(* them and does not count the blocks of the others.                       *)
(***************************************************************************)
NoGroup ==
    [rid |-> 0, status |-> "none", prompt |-> 0, out |-> <<>>, computed |-> 0,
     max_tokens |-> 0, stop |-> FALSE, n |-> 1, pooling |-> FALSE, blocks |-> 0,
     rem |-> 0]

FinishedStatuses == {"stopped", "length", "aborted", "ignored"}

\* SequenceGroup.is_finished()
is_finished(g) == g.status \in FinishedStatuses

\* Sequence.get_len(): prompt tokens and output tokens
get_len(g) == g.prompt + Len(g.out)

\* blocks a sequence of n tokens occupies: ceil(n / block_size)
BlocksFor(n) == (n + BlockSize - 1) \div BlockSize

SeqToSet(s) == {s[i] : i \in 1..Len(s)}

RECURSIVE SeqFilter(_, _)
\* the elements of s that are in the set keep, in order
SeqFilter(s, keep) ==
    IF s = <<>> THEN <<>>
    ELSE IF Head(s) \in keep THEN <<Head(s)>> \o SeqFilter(Tail(s), keep)
    ELSE SeqFilter(Tail(s), keep)

(***************************************************************************)
(* The scheduler of one virtual engine.                                    *)
(***************************************************************************)
NewScheduler ==
    [waiting |-> <<>>, running |-> <<>>, swapped |-> <<>>,
     free |-> NumGpuBlocks, free_host |-> NumCpuBlocks, finished_ids |-> {}]

Queued(s) == SeqToSet(s.waiting) \cup SeqToSet(s.running) \cup SeqToSet(s.swapped)

\* Scheduler.get_num_unfinished_seq_groups()
get_num_unfinished_seq_groups(s) == Len(s.waiting) + Len(s.running) + Len(s.swapped)

\* Scheduler.has_unfinished_seqs()
has_unfinished_seqs(s) == get_num_unfinished_seq_groups(s) > 0


(***************************************************************************)
(* The engine state the handlers transform.  A handler is a function from  *)
(* this record to this record; once e.err is set the exception propagates  *)
(* and the remaining statements of the handler are skipped.                *)
(***************************************************************************)
\* a SequenceGroup object is garbage once it is finished and neither a
\* scheduler queue, nor a queue entry, nor the cached decision refers to it
Referenced(g) ==
    \/ \E v \in DOMAIN sched : g \in Queued(sched[v])
    \/ \E k \in 1..Len(output_queue) :
          \/ \E i \in 1..Len(output_queue[k].meta) : output_queue[k].meta[i].g = g
          \/ g \in SeqToSet(output_queue[k].so.ignored)
    \/ \E i \in 1..Len(cached.meta) : cached.meta[i].g = g
    \/ g \in SeqToSet(cached.so.ignored)

Garbage == {g \in Slots : is_finished(grp[g]) /\ ~Referenced(g)}

\* RequestOutputs made from a collected object keep their contents and
\* lose the reference
Detach(ros, S) ==
    [k \in 1..Len(ros) |-> IF ros[k].g \in S THEN [ros[k] EXCEPT !.g = 0] ELSE ros[k]]

\* the engine as a call finds it; e.stale counts the RequestOutputs of
\* e.ro that were there before the call, e.created collects the ones the
\* call creates; e.enq, e.psync and e.pasync count the queue entries the
\* call appends, pops with is_async=False and pops with is_async=True;
\* e.mismatch is set when an entry is popped with is_async different from
\* whether its tokens were appended by _advance_to_next_step
Eng ==
    [grp |-> grp, sched |-> sched, oq |-> output_queue, ro |-> request_outputs,
     cached |-> cached, err |-> "none",
     stale |-> Len(request_outputs), created |-> <<>>, batch |-> {},
     enq |-> 0, psync |-> 0, pasync |-> 0, mismatch |-> FALSE, stats |-> <<>>]

Raise(e, what) == IF e.err = "none" THEN [e EXCEPT !.err = what] ELSE e

RECURSIVE SumBlocks(_, _)
\* the device blocks held by the groups of the set S
SumBlocks(G, S) ==
    IF S = {} THEN 0
    ELSE LET g == CHOOSE x \in S : TRUE IN G[g].blocks + SumBlocks(G, S \ {g})

\* the groups in S leave every queue of scheduler v and return their
\* blocks: a swapped group to the host pool, any other to the device pool
Dequeue(e, v, S) ==
    LET s == e.sched[v]
        keep == Slots \ S
    IN [e EXCEPT
          !.sched[v] = [s EXCEPT !.waiting = SeqFilter(s.waiting, keep),
                                 !.running = SeqFilter(s.running, keep),
                                 !.swapped = SeqFilter(s.swapped, keep),
                                 !.free = s.free
                                    + SumBlocks(e.grp, S \ SeqToSet(s.swapped)),
                                 !.free_host = s.free_host
                                    + SumBlocks(e.grp, S \cap SeqToSet(s.swapped)),
                                 !.finished_ids = s.finished_ids
                                        \cup {e.grp[g].rid : g \in S}],
          !.grp = [g \in Slots |->
                     IF g \in S THEN [e.grp[g] EXCEPT !.blocks = 0] ELSE e.grp[g]]]

\* Scheduler.add_seq_group: the group joins the waiting queue
add_seq_group(e, v, g) ==
    [e EXCEPT !.sched[v].waiting = Append(e.sched[v].waiting, g)]

\* Scheduler.abort_seq_group: every queued group with this request id
\* becomes FINISHED_ABORTED, is freed and leaves its queue; an id that is
\* in no queue is ignored
abort_seq_group(e, v, rid) ==
    LET S == {g \in Queued(e.sched[v]) : e.grp[g].rid = rid}
        e1 == [e EXCEPT !.grp = [g \in Slots |->
                  IF g \in S THEN [e.grp[g] EXCEPT !.status = "aborted"]
                  ELSE e.grp[g]]]
    IN IF S = {} THEN e ELSE Dequeue(e1, v, S)

\* Scheduler.free_finished_seq_groups: finished groups leave the queues
\* and return their blocks
free_finished_seq_groups(e, v) ==
    LET S == {g \in Queued(e.sched[v]) : is_finished(e.grp[g])}
    IN IF S = {} THEN e ELSE Dequeue(e, v, S)

\* Scheduler.get_and_reset_finished_requests_ids
get_and_reset_finished_requests_ids(e, v) ==
    [e EXCEPT !.sched[v].finished_ids = {}]

(***************************************************************************)
(* The block manager, block by block.  The scheduler above keeps the       *)
(* number of blocks of every group and of the free lists; here every       *)
(* physical block has its identity and its ref-count, so that forked       *)
(* sequences share blocks and copy them on write.                          *)
(***************************************************************************)
SeqIds == 1..MaxSeqs
DeviceBlocks == 1..NumGpuBlocks
HostBlocks == 1..NumCpuBlocks

\* no sequence has a block table; every block is on its free list
NewBlockManager ==
    [ref |-> [x \in DeviceBlocks |-> 0], free |-> DeviceBlocks,
     href |-> [x \in HostBlocks |-> 0], hfree |-> HostBlocks,
     table |-> [s \in SeqIds |-> <<>>],
     len |-> [s \in SeqIds |-> 0],
     group |-> [s \in SeqIds |-> 0],
     st |-> [s \in SeqIds |-> "none"]]

RECURSIVE Ascending(_)
\* the block ids of the set S, lowest first
Ascending(S) ==
    IF S = {} THEN <<>>
    ELSE LET m == CHOOSE x \in S : \A y \in S : x <= y
         IN <<m>> \o Ascending(S \ {m})

\* the k blocks a free list hands out next
Take(S, k) == SubSeq(Ascending(S), 1, k)

\* the position of x among the blocks of S
Rank(S, x) == Cardinality({y \in S : y <= x})

\* the device (host = FALSE) or host (host = TRUE) blocks of a block table
BlocksOf(t, host) == {t[i].id : i \in {j \in 1..Len(t) : t[j].host = host}}

\* the sequences of group g that have a block table
SeqsOf(b, g) == {s \in SeqIds : b.st[s] # "none" /\ b.group[s] = g}

\* BlockManager.can_allocate says ok
can_allocate(b, prompt_len) == BlocksFor(prompt_len) <= Cardinality(b.free)

\* BlockManager.allocate: the blocks of the prompt are allocated for the
\* first child and shared with the other children
allocate(b, seqs, g, prompt_len) ==
    LET blocks == Take(b.free, BlocksFor(prompt_len))
        used == SeqToSet(blocks)
    IN [b EXCEPT
          !.free = b.free \ used,
          !.ref = [x \in DeviceBlocks |->
                      IF x \in used THEN Cardinality(seqs) ELSE b.ref[x]],
          !.table = [s \in SeqIds |->
                      IF s \in seqs
                      THEN [i \in 1..Len(blocks) |-> [host |-> FALSE, id |-> blocks[i]]]
                      ELSE b.table[s]],
          !.len = [s \in SeqIds |-> IF s \in seqs THEN prompt_len ELSE b.len[s]],
          !.group = [s \in SeqIds |-> IF s \in seqs THEN g ELSE b.group[s]],
          !.st = [s \in SeqIds |-> IF s \in seqs THEN "running" ELSE b.st[s]]]

\* the next token of s needs a block from the free list: a new tail block,
\* or a copy of a shared tail block
NeedsBlock(b, s) ==
    \/ BlocksFor(b.len[s] + 1) > Len(b.table[s])
    \/ b.ref[b.table[s][Len(b.table[s])].id] > 1

\* BlockManager.can_append_slot
can_append_slot(b, s) == NeedsBlock(b, s) => b.free # {}

\* BlockManager.append_slot: room for one more token of s.  A full table
\* gets a new block; a tail block that is shared is copied on write: a
\* fresh block replaces it in the table and it loses one reference
append_slot(b, s) ==
    LET t == b.table[s]
        fresh == CHOOSE x \in b.free : \A y \in b.free : x <= y
        old == t[Len(t)].id
    IN IF BlocksFor(b.len[s] + 1) > Len(t)
       THEN [b EXCEPT !.free = b.free \ {fresh},
                      !.ref[fresh] = 1,
                      !.table[s] = Append(t, [host |-> FALSE, id |-> fresh]),
                      !.len[s] = b.len[s] + 1]
       ELSE IF b.ref[old] > 1
       THEN [b EXCEPT !.free = b.free \ {fresh},
                      !.ref = [x \in DeviceBlocks |->
                                  IF x = fresh THEN 1
                                  ELSE IF x = old THEN b.ref[x] - 1
                                  ELSE b.ref[x]],
                      !.table[s][Len(t)] = [host |-> FALSE, id |-> fresh],
                      !.len[s] = b.len[s] + 1]
       ELSE [b EXCEPT !.len[s] = b.len[s] + 1]

\* fork that copies the block table and counts no reference
fork_uncounted(b, parent, child) ==
    [b EXCEPT
       !.table[child] = b.table[parent],
       !.len[child] = b.len[parent],
       !.group[child] = b.group[parent],
       !.st[child] = "running"]

\* BlockManager.fork: the child shares every block of the parent
fork(b, parent, child) ==
    [b EXCEPT
       !.ref = [x \in DeviceBlocks |->
                   IF x \in BlocksOf(b.table[parent], FALSE)
                   THEN b.ref[x] + 1 ELSE b.ref[x]],
       !.table[child] = b.table[parent],
       !.len[child] = b.len[parent],
       !.group[child] = b.group[parent],
       !.st[child] = "running"]

\* free that puts every block of the table on the free list, shared or not
free_unconditionally(b, s) ==
    [b EXCEPT
       !.ref = [x \in DeviceBlocks |->
                   IF x \in BlocksOf(b.table[s], FALSE)
                   THEN b.ref[x] - 1 ELSE b.ref[x]],
       !.free = b.free \cup BlocksOf(b.table[s], FALSE),
       !.href = [x \in HostBlocks |->
                    IF x \in BlocksOf(b.table[s], TRUE)
                    THEN b.href[x] - 1 ELSE b.href[x]],
       !.hfree = b.hfree \cup BlocksOf(b.table[s], TRUE),
       !.table[s] = <<>>,
       !.len[s] = 0,
       !.group[s] = 0,
       !.st[s] = "none"]

\* BlockManager.free: every block of the table loses one reference, and
\* goes to its free list when that was the last one
free(b, s) ==
    [b EXCEPT
       !.ref = [x \in DeviceBlocks |->
                   IF x \in BlocksOf(b.table[s], FALSE)
                   THEN b.ref[x] - 1 ELSE b.ref[x]],
       !.free = b.free \cup {x \in BlocksOf(b.table[s], FALSE) : b.ref[x] = 1},
       !.href = [x \in HostBlocks |->
                    IF x \in BlocksOf(b.table[s], TRUE)
                    THEN b.href[x] - 1 ELSE b.href[x]],
       !.hfree = b.hfree \cup {x \in BlocksOf(b.table[s], TRUE) : b.href[x] = 1},
       !.table[s] = <<>>,
       !.len[s] = 0,
       !.group[s] = 0,
       !.st[s] = "none"]

\* the device blocks of the block tables of group g
GroupBlocks(b, g, host) == UNION {BlocksOf(b.table[s], host) : s \in SeqsOf(b, g)}

\* BlockManager.can_swap_out
can_swap_out(b, g) ==
    Cardinality(GroupBlocks(b, g, FALSE)) <= Cardinality(b.hfree)

\* BlockManager.swap_out: every device block of the group moves to a host
\* block, with its references; the whole group or nothing
swap_out(b, g) ==
    LET D == GroupBlocks(b, g, FALSE)
        H == Take(b.hfree, Cardinality(D))
        to(d) == H[Rank(D, d)]
    IN [b EXCEPT
          !.ref = [x \in DeviceBlocks |-> IF x \in D THEN 0 ELSE b.ref[x]],
          !.free = b.free \cup D,
          !.href = [x \in HostBlocks |->
                       IF \E d \in D : to(d) = x
                       THEN b.ref[CHOOSE d \in D : to(d) = x]
                       ELSE b.href[x]],
          !.hfree = b.hfree \ SeqToSet(H),
          !.table = [s \in SeqIds |->
                       IF s \in SeqsOf(b, g)
                       THEN [i \in 1..Len(b.table[s]) |->
                               [host |-> TRUE, id |-> to(b.table[s][i].id)]]
                       ELSE b.table[s]],
          !.st = [s \in SeqIds |-> IF s \in SeqsOf(b, g) THEN "swapped" ELSE b.st[s]]]

\* BlockManager.can_swap_in
can_swap_in(b, g) ==
    Cardinality(GroupBlocks(b, g, TRUE)) <= Cardinality(b.free)

\* BlockManager.swap_in: the inverse of swap_out
swap_in(b, g) ==
    LET H == GroupBlocks(b, g, TRUE)
        D == Take(b.free, Cardinality(H))
        to(h) == D[Rank(H, h)]
    IN [b EXCEPT
          !.href = [x \in HostBlocks |-> IF x \in H THEN 0 ELSE b.href[x]],
          !.hfree = b.hfree \cup H,
          !.ref = [x \in DeviceBlocks |->
                      IF \E h \in H : to(h) = x
                      THEN b.href[CHOOSE h \in H : to(h) = x]
                      ELSE b.ref[x]],
          !.free = b.free \ SeqToSet(D),
          !.table = [s \in SeqIds |->
                       IF s \in SeqsOf(b, g)
                       THEN [i \in 1..Len(b.table[s]) |->
                               [host |-> FALSE, id |-> to(b.table[s][i].id)]]
                       ELSE b.table[s]],
          !.st = [s \in SeqIds |-> IF s \in SeqsOf(b, g) THEN "running" ELSE b.st[s]]]

(***************************************************************************)
(* Scheduler.schedule() of virtual engine 1.                               *)
(***************************************************************************)
is_multi_step == cfg.num_scheduler_steps > 1

\* num_lookahead_slots of a decode decision
Lookahead == cfg.num_scheduler_steps - 1

\* preemption by recompute: the victim goes back to the front of waiting,
\* its blocks are freed and its prompt will be prefilled again
Preempt(e, g) ==
    LET s == e.sched[1]
    IN [e EXCEPT
          !.sched[1] = [s EXCEPT !.running = SeqFilter(s.running, Slots \ {g}),
                                 !.waiting = <<g>> \o s.waiting,
                                 !.free = s.free + e.grp[g].blocks],
          !.grp[g] = [e.grp[g] EXCEPT !.status = "waiting", !.blocks = 0,
                                      !.computed = 0]]

\* preemption by swap: BlockManager.swap_out moves every block of the
\* victim to the host pool; the victim joins the swapped queue and keeps
\* its block table and its tokens
PreemptBySwap(e, g) ==
    LET s == e.sched[1]
    IN [e EXCEPT
          !.sched[1] = [s EXCEPT !.running = SeqFilter(s.running, Slots \ {g}),
                                 !.swapped = Append(s.swapped, g),
                                 !.free = s.free + e.grp[g].blocks,
                                 !.free_host = s.free_host - e.grp[g].blocks],
          !.grp[g] = [e.grp[g] EXCEPT !.status = "swapped"]]

\* a victim policy that preempts the group that could not get its block
VictimIsCurrent(e, queue) == Head(queue)

\* the victim among the running groups not yet scheduled: the one admitted
\* last (LIFO)
Victim(e, queue) == queue[Len(queue)]

\* the victim g is preempted in the configured mode; a swap is all or
\* nothing: when the host pool has no room for the blocks of the victim the
\* swap is abandoned and the victim is preempted by recompute
PreemptVictim(e, g) ==
    IF cfg.preemption_mode = "swap" /\ e.grp[g].blocks <= e.sched[1].free_host
    THEN PreemptBySwap(e, g)
    ELSE Preempt(e, g)

\* append_slot: the block table grows to cover the tokens of the next pass
AppendSlots(e, g, need) ==
    [e EXCEPT !.sched[1].free = e.sched[1].free - need,
              !.grp[g].blocks = e.grp[g].blocks + need]

RECURSIVE ScheduleRunning(_, _, _, _)
\* Phase A.  queue: the running groups not yet visited, in admission order;
\* kept: the groups scheduled to decode; npre: the groups preempted
ScheduleRunning(e, queue, kept, npre) ==
    IF queue = <<>> THEN [e |-> e, kept |-> kept, npre |-> npre]
    ELSE LET g == Head(queue)
             rest == Tail(queue)
             want == BlocksFor(get_len(e.grp[g]) + Lookahead) - e.grp[g].blocks
             need == IF want > 0 THEN want ELSE 0
         IN IF need <= e.sched[1].free
            THEN ScheduleRunning(AppendSlots(e, g, need), rest, Append(kept, g), npre)
            ELSE ScheduleRunning(PreemptVictim(e, Victim(e, queue)),
                                 SeqFilter(queue, Slots \ {Victim(e, queue)}),
                                 kept, npre + 1)

\* BlockManager.swap_in and the slot of the next pass: the blocks of the
\* group come back from the host pool and the group runs again
SwapIn(e, g, total) ==
    LET s == e.sched[1]
    IN [e EXCEPT
          !.sched[1] = [s EXCEPT !.swapped = SeqFilter(s.swapped, Slots \ {g}),
                                 !.free = s.free - total,
                                 !.free_host = s.free_host + e.grp[g].blocks],
          !.grp[g] = [e.grp[g] EXCEPT !.status = "running", !.blocks = total]]

RECURSIVE ScheduleSwapped(_, _, _, _)
\* Phase B.  queue: the swapped groups not yet visited, in the order they
\* were swapped out; resumed: the groups swapped in; n: the groups (and
\* tokens) of the batch so far
ScheduleSwapped(e, queue, resumed, n) ==
    IF queue = <<>> THEN [e |-> e, resumed |-> resumed]
    ELSE LET g == Head(queue)
             want == BlocksFor(get_len(e.grp[g]) + Lookahead)
             total == IF want > e.grp[g].blocks THEN want ELSE e.grp[g].blocks
         IN IF /\ total <= e.sched[1].free
               /\ n + 1 <= cfg.max_num_seqs
               /\ n + 1 <= cfg.max_num_batched_tokens
            THEN ScheduleSwapped(SwapIn(e, g, total), Tail(queue),
                                 Append(resumed, g), n + 1)
            ELSE ScheduleSwapped(e, Tail(queue), resumed, n)

\* Phase B that resumes nothing
ScheduleResumedNever(a) ==
    [e |-> a.e, kept |-> a.kept, npre |-> a.npre, resumed |-> <<>>]

\* Phase B that runs whatever Phase A did
ScheduleResumedUngated(a) ==
    LET b == ScheduleSwapped(a.e, a.e.sched[1].swapped, <<>>, Len(a.kept))
    IN [e |-> b.e, kept |-> a.kept \o b.resumed, npre |-> a.npre,
        resumed |-> b.resumed]

\* Phase B runs if and only if Phase A preempted nothing; the groups it
\* resumes decode in this tick
ScheduleResumed(a) ==
    IF a.npre = 0
    THEN LET b == ScheduleSwapped(a.e, a.e.sched[1].swapped, <<>>, Len(a.kept))
         IN [e |-> b.e, kept |-> a.kept \o b.resumed, npre |-> 0,
             resumed |-> b.resumed]
    ELSE [e |-> a.e, kept |-> a.kept, npre |-> a.npre, resumed |-> <<>>]

\* a waiting group is marked FINISHED_IGNORED and leaves the waiting queue
Ignore(e, g) ==
    [e EXCEPT !.grp[g].status = "ignored",
              !.sched[1].waiting = SeqFilter(e.sched[1].waiting, Slots \ {g})]

\* a waiting group is allocated its prompt blocks and starts running
Admit(e, g) ==
    LET n == BlocksFor(get_len(e.grp[g]))
        s == e.sched[1]
    IN [e EXCEPT
          !.sched[1] = [s EXCEPT !.waiting = SeqFilter(s.waiting, Slots \ {g}),
                                 !.running = Append(s.running, g),
                                 !.free = s.free - n],
          !.grp[g] = [e.grp[g] EXCEPT !.status = "running", !.blocks = n]]

RECURSIVE ScheduleWaitingUnbounded(_, _, _, _, _)
\* Phase C that admits while memory lasts and looks at no budget
ScheduleWaitingUnbounded(e, prefills, ignored, ntok, nseq) ==
    LET w == e.sched[1].waiting
        stop == [e |-> e, prefills |-> prefills, ignored |-> ignored, ntok |-> ntok]
    IN IF w = <<>> THEN stop
       ELSE LET g == Head(w)
                n == get_len(e.grp[g])
            IN IF n > MaxModelLen \/ BlocksFor(n) > cfg.num_gpu_blocks
               THEN ScheduleWaitingUnbounded(Ignore(e, g), prefills,
                                             Append(ignored, g), ntok, nseq)
               ELSE IF BlocksFor(n) > e.sched[1].free
               THEN stop
               ELSE ScheduleWaitingUnbounded(Admit(e, g), Append(prefills, g),
                                             ignored, ntok + n, nseq + 1)

RECURSIVE ScheduleWaiting(_, _, _, _, _)
\* Phase C.  prefills: the groups admitted; ignored: the groups ignored;
\* ntok, nseq: the tokens and groups of the batch so far
ScheduleWaiting(e, prefills, ignored, ntok, nseq) ==
    LET w == e.sched[1].waiting
        stop == [e |-> e, prefills |-> prefills, ignored |-> ignored, ntok |-> ntok]
    IN IF w = <<>> THEN stop
       ELSE LET g == Head(w)
                n == get_len(e.grp[g])
            IN IF n > MaxModelLen \/ BlocksFor(n) > cfg.num_gpu_blocks
               THEN ScheduleWaiting(Ignore(e, g), prefills, Append(ignored, g),
                                    ntok, nseq)
               ELSE IF \/ BlocksFor(n) > e.sched[1].free
                       \/ ntok + n > cfg.max_num_batched_tokens
                       \/ nseq + 1 > cfg.max_num_seqs
               THEN stop
               ELSE ScheduleWaiting(Admit(e, g), Append(prefills, g), ignored,
                                    ntok + n, nseq + 1)

\* the sampling parameters of the group let its output be processed one
\* step late: one sample, no beam search, no stop string
AsyncEligible(g) == ~g.stop /\ g.n = 1

\* the end of schedule() with the decode groups put before the prefill
\* groups
SchedulerOutputsDecodeFirst(a, c) ==
    LET look == IF is_multi_step /\ c.prefills = <<>> THEN Lookahead ELSE 0
        groups == a.kept \o c.prefills
        G == [g \in Slots |->
                IF is_multi_step /\ g \in SeqToSet(groups)
                THEN [c.e.grp[g] EXCEPT !.rem = look + 1]
                ELSE c.e.grp[g]]
    IN [e |-> [c.e EXCEPT !.sched[1].running = a.kept \o c.prefills, !.grp = G],
        meta |-> [i \in 1..Len(groups) |->
                   LET g == groups[i]
                       chunk == IF i > Len(a.kept)
                                THEN get_len(G[g]) - G[g].computed
                                ELSE 1
                   IN [g |-> g, chunk |-> chunk,
                       do_sample |-> G[g].computed + chunk >= get_len(G[g])]],
        so |-> [num_prefill_groups |-> Len(c.prefills),
                num_lookahead_slots |-> look,
                num_batched_tokens |-> c.ntok,
                ignored |-> c.ignored,
                swapped_in |-> a.resumed,
                preempted |-> a.npre],
        allow_async |-> /\ cfg.use_async_output_proc
                        /\ ~is_multi_step
                        /\ \A i \in 1..Len(groups) : AsyncEligible(G[groups[i]])]

\* the end of schedule(): a is the outcome of Phase A, c of Phase C
SchedulerOutputs(a, c) ==
    LET look == IF is_multi_step /\ c.prefills = <<>> THEN Lookahead ELSE 0
        groups == c.prefills \o a.kept
        G == [g \in Slots |->
                IF is_multi_step /\ g \in SeqToSet(groups)
                THEN [c.e.grp[g] EXCEPT !.rem = look + 1]
                ELSE c.e.grp[g]]
    IN [e |-> [c.e EXCEPT !.sched[1].running = a.kept \o c.prefills, !.grp = G],
        meta |-> [i \in 1..Len(groups) |->
                   LET g == groups[i]
                       chunk == IF i <= Len(c.prefills)
                                THEN get_len(G[g]) - G[g].computed
                                ELSE 1
                   IN [g |-> g, chunk |-> chunk,
                       do_sample |-> G[g].computed + chunk >= get_len(G[g])]],
        so |-> [num_prefill_groups |-> Len(c.prefills),
                num_lookahead_slots |-> look,
                num_batched_tokens |-> c.ntok,
                ignored |-> c.ignored,
                swapped_in |-> a.resumed,
                preempted |-> a.npre],
        allow_async |-> /\ cfg.use_async_output_proc
                        /\ ~is_multi_step
                        /\ \A i \in 1..Len(groups) : AsyncEligible(G[groups[i]])]

\* Phase C runs when Phase A preempted nothing (and, in multi-step mode,
\* scheduled no decode)
SchedulePrefills(a) ==
    SchedulerOutputs(a,
        IF a.npre = 0 /\ (is_multi_step => a.kept = <<>>)
        THEN ScheduleWaiting(a.e, <<>>, <<>>, Len(a.kept), Len(a.kept))
        ELSE [e |-> a.e, prefills |-> <<>>, ignored |-> <<>>, ntok |-> Len(a.kept)])

\* Scheduler.schedule(): the decision and the scheduler state after it
schedule(e) ==
    SchedulePrefills(ScheduleResumed(ScheduleRunning(e, e.sched[1].running, <<>>, 0)))


(***************************************************************************)
(* The output processor and the stop checker.                              *)
(***************************************************************************)
\* the stop string of a request that has one: two ordinary tokens in a row
StopStringMatch(out) ==
    /\ Len(out) >= 2
    /\ out[Len(out)] # EosTokenId
    /\ out[Len(out) - 1] # EosTokenId

\* StopChecker.maybe_stop_sequence: the status after the newest token
StopStatus(g) ==
    IF Len(g.out) = 0 THEN g.status
    ELSE IF g.out[Len(g.out)] = EosTokenId THEN "stopped"
    ELSE IF g.stop /\ StopStringMatch(g.out) THEN "stopped"
    ELSE IF get_len(g) > MaxModelLen THEN "length"
    ELSE IF Len(g.out) >= g.max_tokens THEN "length"
    ELSE g.status

RECURSIVE process_outputs(_, _, _)
\* SequenceGroupOutputProcessor.process_outputs: each sampled token is
\* appended (unless is_async: it was appended already) and the stop check
\* runs after it
process_outputs(g, toks, is_async) ==
    IF toks = <<>> \/ is_finished(g) THEN g
    ELSE LET g1 == IF is_async THEN g ELSE [g EXCEPT !.out = Append(@, Head(toks))]
             g2 == [g1 EXCEPT !.status = StopStatus(g1)]
         IN process_outputs(g2, Tail(toks), is_async)

\* update_num_computed_tokens that sets the count instead of adding to it
update_num_computed_tokens_sets(g, n) == [g EXCEPT !.computed = n]

\* SequenceGroup.update_num_computed_tokens
update_num_computed_tokens(g, n) == [g EXCEPT !.computed = @ + n]

\* _process_sequence_group_outputs that stores the embeddings and leaves
\* the status of the sequences alone
process_sequence_group_outputsKeepsStatus(g) == g

\* LLMEngine._process_sequence_group_outputs (embedding mode)
process_sequence_group_outputs(g) == [g EXCEPT !.status = "stopped"]

\* RequestOutputFactory.create: a snapshot of the group
RequestOutput(G, g) ==
    [rid |-> G[g].rid, g |-> g, out |-> G[g].out, finished |-> is_finished(G[g]),
     finish_reason |-> IF is_finished(G[g]) THEN G[g].status ELSE "none",
     dead |-> FALSE]

\* _process_model_outputs that frees no finished group
FreeFinishedNone(e, v) == e

RECURSIVE FreeFinishedAll(_, _)
\* for scheduler in self.scheduler: scheduler.free_finished_seq_groups()
FreeFinishedAll(e, v) ==
    IF v > cfg.pipeline_parallel_size THEN e
    ELSE FreeFinishedAll(free_finished_seq_groups(e, v), v + 1)

\* the sampler outputs of the i-th group of the batch, one per step
OutputsOf(outputs, i) == [k \in 1..Len(outputs) |-> outputs[k][i]]

(***************************************************************************)
(* LLMEngine._get_stats                                                    *)
(***************************************************************************)
\* line 1696: the entry at position idx of scheduled_seq_groups (counted
\* from 0) is taken to be a prefill group
group_was_prefill(so, idx) == idx < so.num_prefill_groups

RECURSIVE num_prompt_tokens_iter(_, _, _)
\* lines 1691-1704: the prompt tokens of the iteration, added up over the
\* entries from position idx (counted from 0) on; the entries of
\* finished_before are skipped
num_prompt_tokens_iter(d, finished_before, idx) ==
    IF idx >= Len(d.meta) THEN 0
    ELSE (IF idx \notin finished_before /\ group_was_prefill(d.so, idx)
          THEN d.meta[idx + 1].chunk ELSE 0)
         + num_prompt_tokens_iter(d, finished_before, idx + 1)

\* SequenceGroup.is_prefill(): the group has prompt tokens left to compute
\* (prompts are computed in one chunk)
is_prefill(g) == g.computed < g.prompt

\* SequenceGroup.num_seqs(): a group with n > 1 has n sequences once its
\* first samples were processed
num_seqs(g) == IF g.out # <<>> THEN g.n ELSE 1

RECURSIVE num_generation_tokens_from_prefill_groups(_, _, _, _)
\* lines 1696-1714: one generation token per sequence of every prefill
\* group of the entry that is no longer in its prefill, added up over the
\* entries from position idx (counted from 0) on
num_generation_tokens_from_prefill_groups(G, d, finished_before, idx) ==
    IF idx >= Len(d.meta) THEN 0
    ELSE (IF /\ idx \notin finished_before
             /\ group_was_prefill(d.so, idx)
             /\ ~is_prefill(G[d.meta[idx + 1].g])
          THEN num_seqs(G[d.meta[idx + 1].g]) ELSE 0)
         + num_generation_tokens_from_prefill_groups(G, d, finished_before, idx + 1)

RECURSIVE ChunksOf(_, _, _)
\* the tokens scheduled for the entries of S, from position idx on
ChunksOf(d, S, idx) ==
    IF idx >= Len(d.meta) THEN 0
    ELSE (IF idx \in S THEN d.meta[idx + 1].chunk ELSE 0) + ChunksOf(d, S, idx + 1)

\* actual_num_batched_tokens that takes off every token scheduled for an
\* entry of finished_before
actual_num_batched_tokensLessChunks(d, finished_before) ==
    d.so.num_batched_tokens - ChunksOf(d, finished_before, 0)

\* lines 1681-1694: num_batched_tokens less one for every entry of
\* finished_before
actual_num_batched_tokens(d, finished_before) ==
    d.so.num_batched_tokens
        - Cardinality({idx \in 0..(Len(d.meta) - 1) : idx \in finished_before})

\* lines 1749-1757
num_generation_tokens_iter(G, d, finished_before) ==
    actual_num_batched_tokens(d, finished_before)
        - num_prompt_tokens_iter(d, finished_before, 0)
        + num_generation_tokens_from_prefill_groups(G, d, finished_before, 0)

\* LLMEngine._get_stats: the iteration statistics of the entry d (its
\* metadata list and scheduler outputs), G being the sequence groups when
\* the statistics are taken
get_stats(G, d, finished_before) ==
    [num_prompt_tokens_iter |-> num_prompt_tokens_iter(d, finished_before, 0),
     num_generation_tokens_iter |-> num_generation_tokens_iter(G, d, finished_before),
     meta |-> d.meta,
     so |-> d.so,
     finished_before |-> finished_before,
     left_prefill |-> [i \in 1..Len(d.meta) |-> ~is_prefill(G[d.meta[i].g])],
     num_seqs |-> [i \in 1..Len(d.meta) |-> num_seqs(G[d.meta[i].g])]]

\* LLMEngine.do_log_stats: e.stats is what the stat loggers were given
\* during the call
do_log_stats(e, d, finished_before) ==
    CHOOSE logged \in {[x EXCEPT !.stats = Append(@, get_stats(x.grp, y, fb))] :
                          x \in {e}, y \in {[meta |-> d.meta, so |-> d.so]},
                          fb \in {finished_before}} : TRUE


(***************************************************************************)
(* LLMEngine._process_model_outputs                                        *)
(***************************************************************************)
\* lines 1304-1329: the RequestOutputs of the entry ent, made after the
\* finished groups were freed
CreateOutputs(e2, ent) ==
    LET n == Len(ent.meta)
        shown == SeqFilter([i \in 1..n |-> i],
                    {i \in 1..n :
                        /\ ~ent.skip[i]
                        /\ cfg.step_return_finished_only
                              => is_finished(e2.grp[ent.meta[i].g])})
        new == [k \in 1..Len(shown) |-> RequestOutput(e2.grp, ent.meta[shown[k]].g)]
               \o [k \in 1..Len(ent.so.ignored) |->
                       RequestOutput(e2.grp, ent.so.ignored[k])]
    IN [e2 EXCEPT !.ro = e2.ro \o new, !.created = e2.created \o new]

\* lines 1236-1302: the head entry is popped, its groups are updated and
\* the finished ones are freed
ProcessHead(e0, is_async) ==
    IF Len(e0.oq) = 0 THEN e0
    ELSE
    LET ent == Head(e0.oq)
        n == Len(ent.meta)
        finished_before == [i \in 1..n |-> is_finished(e0.grp[ent.meta[i].g])]
        todo == {i \in 1..n : ~finished_before[i]}
        One(i) ==
            LET m == ent.meta[i]
                g0 == e0.grp[m.g]
                g1 == IF is_async THEN g0
                      ELSE update_num_computed_tokens(g0, m.chunk)
            IN IF cfg.embedding_mode THEN process_sequence_group_outputs(g1)
               ELSE IF m.do_sample
               THEN process_outputs(g1, OutputsOf(ent.outputs, i), is_async)
               ELSE g1
        e3 == CreateOutputs(
                 FreeFinishedAll(
                    [e0 EXCEPT
                       !.oq = Tail(e0.oq),
                       !.psync = IF is_async THEN @ ELSE @ + 1,
                       !.pasync = IF is_async THEN @ + 1 ELSE @,
                       !.mismatch = @ \/ (Len(ent.outputs) > 0 /\ ent.adv # is_async),
                       !.grp = [g \in Slots |->
                           IF \E i \in todo : ent.meta[i].g = g
                           THEN One(CHOOSE i \in todo : ent.meta[i].g = g)
                           ELSE e0.grp[g]]], 1),
                 [meta |-> ent.meta, so |-> ent.so, skip |-> finished_before])
    IN IF is_async
       THEN do_log_stats(e3, ent, {i - 1 : i \in {j \in 1..n : finished_before[j]}})
       ELSE e3

\* process_outputs as it runs on a group that the caller did not test:
\* the first token is appended and checked whatever the status is
process_outputs_untested(g, toks, is_async) ==
    IF toks = <<>> THEN g
    ELSE LET g1 == IF is_async THEN g ELSE [g EXCEPT !.out = Append(@, Head(toks))]
             g2 == [g1 EXCEPT !.status = StopStatus(g1)]
         IN process_outputs(g2, Tail(toks), is_async)

\* the head entry is processed without the is_finished() test of lines
\* 1261-1263
ProcessHeadUnfiltered(e0, is_async) ==
    IF Len(e0.oq) = 0 THEN e0
    ELSE
    LET ent == Head(e0.oq)
        n == Len(ent.meta)
        One(i) ==
            LET m == ent.meta[i]
                g0 == e0.grp[m.g]
                g1 == IF is_async THEN g0
                      ELSE update_num_computed_tokens(g0, m.chunk)
            IN IF cfg.embedding_mode THEN process_sequence_group_outputs(g1)
               ELSE IF m.do_sample
               THEN process_outputs_untested(g1, OutputsOf(ent.outputs, i), is_async)
               ELSE g1
    IN CreateOutputs(
          FreeFinishedAll(
             [e0 EXCEPT
                !.oq = Tail(e0.oq),
                !.grp = [g \in Slots |->
                    IF \E i \in 1..n : ent.meta[i].g = g
                    THEN One(CHOOSE i \in 1..n : ent.meta[i].g = g)
                    ELSE e0.grp[g]]], 1),
          [meta |-> ent.meta, so |-> ent.so, skip |-> [i \in 1..n |-> FALSE]])

\* _process_model_outputs that processes the groups that are finished too
process_model_outputs_unfiltered(e, is_async, clear_outputs) ==
    IF e.err # "none" THEN e
    ELSE ProcessHeadUnfiltered(
            IF clear_outputs THEN [e EXCEPT !.ro = <<>>, !.stale = 0] ELSE e,
            is_async)

\* _process_model_outputs that returns at once
process_model_outputs_skipped(e, is_async, clear_outputs) == e

\* _process_model_outputs that appends the tokens whatever is_async is
process_model_outputs_appending(e, is_async, clear_outputs) ==
    IF e.err # "none" THEN e
    ELSE ProcessHead(IF clear_outputs THEN [e EXCEPT !.ro = <<>>, !.stale = 0] ELSE e,
                     FALSE)

process_model_outputs(e, is_async, clear_outputs) ==
    IF e.err # "none" THEN e
    ELSE ProcessHead(IF clear_outputs THEN [e EXCEPT !.ro = <<>>, !.stale = 0] ELSE e,
                     is_async)

(***************************************************************************)
(* LLMEngine._advance_to_next_step                                         *)
(***************************************************************************)
\* the loop stops at the first group that fails one of the two assertions
\* (lines 1350 and 1356): a group with n > 1 has n samples, then n sequences
advance_to_next_step(e, output, meta) ==
    IF e.err # "none" THEN e
    ELSE
    LET live == {i \in 1..Len(meta) : ~is_finished(e.grp[meta[i].g])}
        bad == {i \in live : meta[i].do_sample /\ e.grp[meta[i].g].n # 1}
        last == IF bad = {} THEN Len(meta)
                ELSE CHOOSE i \in bad : \A j \in bad : i <= j
        e1 == [e EXCEPT !.grp = [g \in Slots |->
                IF \E i \in live : i <= last /\ meta[i].g = g
                THEN LET i == CHOOSE i \in live : meta[i].g = g
                         g1 == update_num_computed_tokens(e.grp[g], meta[i].chunk)
                     IN IF meta[i].do_sample /\ i \notin bad
                        THEN [g1 EXCEPT !.out = Append(@, output[i])]
                        ELSE g1
                ELSE e.grp[g]]]
    IN IF bad = {} THEN e1 ELSE Raise(e1, "AssertionError")


(***************************************************************************)
(* LLMEngine.step and its helpers                                          *)
(***************************************************************************)
\* SchedulerOutputState(): nothing is cached
NoCached ==
    [meta |-> <<>>,
     so |-> [num_prefill_groups |-> 0, num_lookahead_slots |-> 0,
             num_batched_tokens |-> 0, ignored |-> <<>>, swapped_in |-> <<>>,
             preempted |-> 0],
     allow_async |-> FALSE]

\* LLMEngine._has_remaining_steps: "no", "yes", or "error" when the groups
\* of the list disagree (AssertionError)
has_remaining_steps(e, meta) ==
    IF ~is_multi_step \/ meta = <<>> THEN "no"
    ELSE LET ref == e.grp[meta[1].g].rem
         IN IF \E i \in 2..Len(meta) : e.grp[meta[i].g].rem # ref THEN "error"
            ELSE IF ref > 0 THEN "yes" ELSE "no"

\* LLMEngine._cache_scheduler_outputs_for_multi_step
cache_scheduler_outputs_for_multi_step(e, d) ==
    [e EXCEPT !.cached = [meta |-> d.meta, so |-> d.so, allow_async |-> d.allow_async]]

\* LLMEngine.has_unfinished_requests
has_unfinished_requests(e) ==
    \E v \in 1..cfg.pipeline_parallel_size : has_unfinished_seqs(e.sched[v])

\* LLMEngine.get_num_unfinished_requests
RECURSIVE NumUnfinishedFrom(_, _)
NumUnfinishedFrom(S, v) ==
    IF v > cfg.pipeline_parallel_size THEN 0
    ELSE get_num_unfinished_seq_groups(S[v]) + NumUnfinishedFrom(S, v + 1)

get_num_unfinished_requests(S) == NumUnfinishedFrom(S, 1)

\* finish_step on the first group of the list only
finish_stepFirstOnly(e, meta) ==
    IF meta = <<>> THEN e
    ELSE [e EXCEPT !.grp[meta[1].g].rem = @ - 1]

\* SequenceGroupMetadata.finish_step on every group of the list
finish_step(e, meta) ==
    [e EXCEPT !.grp = [g \in Slots |->
        IF \E i \in 1..Len(meta) : meta[i].g = g
        THEN [e.grp[g] EXCEPT !.rem = @ - 1]
        ELSE e.grp[g]]]

\* the number of sampler outputs one execute_model call returns: one in
\* single-step mode; in multi-step mode the outputs of all the steps of the
\* decision, returned by the call that runs its last step
NumOutputs(e, d) ==
    IF d.meta = <<>> THEN 0
    ELSE IF ~is_multi_step THEN 1
    ELSE IF e.grp[d.meta[1].g].rem = 1 THEN d.so.num_lookahead_slots + 1
    ELSE 0

\* ModelExecutor.execute_model: with the callback set, the executor runs
\* it once (post-processing of the previous step) while the forward pass
\* is in flight
execute_model(e, allow_async) ==
    IF allow_async THEN process_model_outputs(e, TRUE, TRUE) ELSE e

\* Decide that calls the scheduler in every step()
DecideAlwaysSchedules(e) == schedule(e) @@ [fresh |-> TRUE]

\* step(), lines 1416-1439: the cached decision, or a new one
Decide(e) ==
    IF has_remaining_steps(e, e.cached.meta) = "no"
    THEN schedule(e) @@ [fresh |-> TRUE]
    ELSE [e |-> e, meta |-> e.cached.meta, so |-> e.cached.so,
          allow_async |-> e.cached.allow_async, fresh |-> FALSE]

\* step(), lines 1433-1445
CacheDecision(e1, d) ==
    IF e1.err # "none" THEN e1
    ELSE IF is_multi_step /\ d.allow_async THEN Raise(e1, "AssertionError")
    ELSE IF d.fresh /\ is_multi_step /\ d.so.num_lookahead_slots > 0
    THEN cache_scheduler_outputs_for_multi_step(e1, d)
    ELSE e1

\* step() without the drain of lines 1430-1431
StepScheduleNoDrain(e, d) ==
    IF has_remaining_steps(e, e.cached.meta) = "error"
    THEN Raise(e, "AssertionError")
    ELSE CacheDecision(d.e, d)

\* step(), lines 1416-1445; d.e is the engine after schedule()
StepSchedule(e, d) ==
    IF has_remaining_steps(e, e.cached.meta) = "error"
    THEN Raise(e, "AssertionError")
    ELSE CacheDecision(IF d.fresh /\ ~d.allow_async /\ Len(d.e.oq) > 0
                       THEN process_model_outputs(d.e, TRUE, TRUE)
                       ELSE d.e, d)

\* StepExecute that never sets output_proc_callback_fn (lines 1470-1472)
StepExecuteNoCallback(e, d) ==
    IF e.err # "none" THEN e
    ELSE IF d.meta # <<>>
    THEN execute_model(
            [get_and_reset_finished_requests_ids(e, 1) EXCEPT
                !.batch = {d.meta[i].g : i \in 1..Len(d.meta)}],
            FALSE)
    ELSE IF Len(e.oq) > 0
    THEN IF is_multi_step THEN Raise(e, "AssertionError")
         ELSE process_model_outputs(e, TRUE, TRUE)
    ELSE e

\* step(), lines 1447-1485
StepExecute(e, d) ==
    IF e.err # "none" THEN e
    ELSE IF d.meta # <<>>
    THEN execute_model(
            [get_and_reset_finished_requests_ids(e, 1) EXCEPT
                !.batch = {d.meta[i].g : i \in 1..Len(d.meta)}],
            d.allow_async)
    ELSE IF Len(e.oq) > 0
    THEN IF is_multi_step THEN Raise(e, "AssertionError")
         ELSE process_model_outputs(e, TRUE, TRUE)
    ELSE e

\* ModelExecutor.execute_model fails: the exception leaves the executor
\* before or after the callback ran
execute_model_raises(e, allow_async, ran_callback) ==
    Raise(IF allow_async /\ ran_callback
          THEN process_model_outputs(e, TRUE, TRUE)
          ELSE e, "ExecutorError")

\* step(), lines 1447-1475, when execute_model raises: nothing catches the
\* exception and the rest of step() is skipped
StepExecuteRaises(e, d, ran_callback) ==
    IF e.err # "none" THEN e
    ELSE execute_model_raises(
            [get_and_reset_finished_requests_ids(e, 1) EXCEPT
                !.batch = {d.meta[i].g : i \in 1..Len(d.meta)}],
            d.allow_async, ran_callback)

\* step() that appends nothing to output_queue
EnqueueNothing(e, d, output) == e

\* step(), lines 1497-1500: self.output_queue.append(...)
Enqueue(e, d, output) ==
    [e EXCEPT !.oq = Append(e.oq,
                        [outputs |-> output, meta |-> d.meta, so |-> d.so,
                         age |-> 0,
                         adv |-> Len(output) > 0 /\ d.allow_async]),
              !.enq = @ + 1]

\* step() that calls _advance_to_next_step whatever the decision allows
AdvanceAlways(e, d, output) ==
    IF Len(output) > 0
    THEN IF Len(output) # 1 THEN Raise(e, "AssertionError")
         ELSE advance_to_next_step(e, output[1], d.meta)
    ELSE e

\* step(), lines 1502-1508
Advance(e, d, output) ==
    IF Len(output) > 0 /\ d.allow_async
    THEN IF Len(output) # 1 THEN Raise(e, "AssertionError")
         ELSE advance_to_next_step(e, output[1], d.meta)
    ELSE e

\* step() without the synchronous post-processing of lines 1510-1511
StepOutputLeavesEntry(e, d, output) ==
    IF e.err # "none" THEN e
    ELSE
    LET e0 == IF is_multi_step THEN finish_step(e, d.meta) ELSE e
        more == has_remaining_steps(e0, d.meta)
    IN IF more = "error" THEN Raise(e0, "AssertionError")
       ELSE IF more = "yes" THEN [e0 EXCEPT !.ro = <<>>, !.stale = 0]
       ELSE
       LET e1 == IF is_multi_step THEN [e0 EXCEPT !.cached = NoCached] ELSE e0
           e2 == Enqueue(e1, d, output)
       IN Advance(e2, d, output)

\* step(), lines 1487-1519
StepOutput(e, d, output) ==
    IF e.err # "none" THEN e
    ELSE
    LET e0 == IF is_multi_step THEN finish_step(e, d.meta) ELSE e
        more == has_remaining_steps(e0, d.meta)
    IN IF more = "error" THEN Raise(e0, "AssertionError")
       ELSE IF more = "yes" THEN [e0 EXCEPT !.ro = <<>>, !.stale = 0]
       ELSE
       LET e1 == IF is_multi_step THEN [e0 EXCEPT !.cached = NoCached] ELSE e0
           e2 == Enqueue(e1, d, output)
           e3 == Advance(e2, d, output)
       IN IF ~d.allow_async
          THEN do_log_stats(process_model_outputs(e3, FALSE, TRUE), d, {})
          ELSE e3

\* step(), line 1526: assert len(self.output_queue) == 0
AssertQueueEmpty(e) ==
    IF e.err = "none" /\ Len(e.oq) # 0 THEN Raise(e, "AssertionError") ELSE e

\* the end of step() without the drain of lines 1523-1525
StepDrainAssertOnly(e) ==
    IF e.err # "none" \/ has_unfinished_requests(e) THEN e
    ELSE AssertQueueEmpty(e)

\* step(), lines 1521-1535
StepDrain(e) ==
    IF e.err # "none" \/ has_unfinished_requests(e) THEN e
    ELSE AssertQueueEmpty(
            IF Len(e.oq) > 0
            THEN IF is_multi_step THEN Raise(e, "AssertionError")
                 ELSE process_model_outputs(e, TRUE, FALSE)
            ELSE e)

\* LLMEngine.step, given the decision d it uses and the sampler outputs
\* the executor returns
step(e, d, output) ==
    IF cfg.pipeline_parallel_size > 1 THEN Raise(e, "NotImplementedError")
    ELSE StepDrain(StepOutput(StepExecute(StepSchedule(e, d), d), d, output))


(***************************************************************************)
(* LLMEngine.add_request and the input processing it calls                 *)
(***************************************************************************)
\* tokenizer.bos_token_id, as _get_bos_token_id returns it
BosTokenId == 1

\* hf_config.decoder_start_token_id is absent
NoTokenId == -1

\* LLMEngine._get_default_enc_dec_decoder_prompt
get_default_enc_dec_decoder_prompt == <<BosTokenId>>

\* LLMEngine._get_decoder_start_token_id (of an encoder/decoder model)
get_decoder_start_token_id ==
    IF cfg.decoder_start_token_id = NoTokenId THEN BosTokenId
    ELSE cfg.decoder_start_token_id

\* _prepare_decoder_input_ids_for_generation without the test of lines
\* 715-716: the start token is put before every list
prepare_decoder_input_idsAlwaysPrepends(given, ids) ==
    <<get_decoder_start_token_id>>
        \o (IF ~given THEN get_default_enc_dec_decoder_prompt ELSE ids)

\* LLMEngine._prepare_decoder_input_ids_for_generation; given = FALSE is
\* the decoder_input_ids None
prepare_decoder_input_ids_for_generation(given, ids) ==
    LET ids1 == IF ~given THEN get_default_enc_dec_decoder_prompt ELSE ids
    IN IF Len(ids1) = 0 \/ ids1[1] # get_decoder_start_token_id
       THEN <<get_decoder_start_token_id>> \o ids1
       ELSE ids1

\* LLMEngine._apply_prompt_adapter: virtual tokens are put before the prompt
apply_prompt_adapter(ids, num_virtual_tokens) ==
    [i \in 1..num_virtual_tokens |-> 0] \o ids

\* LLMEngine.process_model_inputs.  inputs.enc is the singleton prompt, or
\* the encoder prompt of an explicit encoder/decoder prompt
process_model_inputs(inputs, num_virtual_tokens) ==
    IF cfg.is_encoder_decoder_model
    THEN [err |-> "none",
          prompt_token_ids |->
              prepare_decoder_input_ids_for_generation(
                  inputs.explicit /\ inputs.dec_given, inputs.dec),
          encoder_prompt_token_ids |-> inputs.enc]
    ELSE IF inputs.explicit
    THEN [err |-> "ValueError", prompt_token_ids |-> <<>>,
          encoder_prompt_token_ids |-> <<>>]
    ELSE [err |-> "none",
          prompt_token_ids |-> apply_prompt_adapter(inputs.enc, num_virtual_tokens),
          encoder_prompt_token_ids |-> <<>>]

\* LLMEngine._validate_model_inputs: TRUE when it raises
validate_model_inputs_fails(pi) ==
    IF cfg.is_encoder_decoder_model THEN Len(pi.encoder_prompt_token_ids) = 0
    ELSE Len(pi.prompt_token_ids) = 0

\* LLMEngine._create_sequence_group_with_sampling: TRUE when it raises
create_sequence_group_with_sampling_fails(params) ==
    \/ params.logprobs # 0 /\ params.logprobs > MaxLogprobs
    \/ params.prompt_logprobs # 0 /\ params.prompt_logprobs > MaxLogprobs

\* add_request that always chooses the first scheduler
MinCostSchedulerFirst(S) == 1

\* the scheduler add_request chooses: costs.index(min(costs))
MinCostScheduler(S) ==
    LET VE == 1..cfg.pipeline_parallel_size
        cost(v) == get_num_unfinished_seq_groups(S[v])
    IN CHOOSE v \in VE :
          /\ \A w \in VE : cost(v) <= cost(w)
          /\ \A w \in VE : cost(w) = cost(v) => v <= w

\* _add_processed_request that also rejects a prompt longer than
\* max_model_len
add_processed_request_checks_length(e, g, rid, pi, params) ==
    IF validate_model_inputs_fails(pi) \/ Len(pi.prompt_token_ids) > MaxModelLen
    THEN Raise(e, "ValueError")
    ELSE IF params.kind = "sampling" /\ create_sequence_group_with_sampling_fails(params)
    THEN Raise(e, "ValueError")
    ELSE LET new == [rid |-> rid, status |-> "waiting",
                     prompt |-> Len(pi.prompt_token_ids), out |-> <<>>,
                     computed |-> 0, max_tokens |-> params.max_tokens,
                     stop |-> params.stop, n |-> params.n,
                     pooling |-> params.kind = "pooling",
                     blocks |-> 0, rem |-> 0]
         IN add_seq_group([e EXCEPT !.grp[g] = new], MinCostScheduler(e.sched), g)

\* LLMEngine._add_processed_request; g is the new SequenceGroup object
add_processed_request(e, g, rid, pi, params) ==
    IF validate_model_inputs_fails(pi) THEN Raise(e, "ValueError")
    ELSE IF params.kind = "sampling" /\ create_sequence_group_with_sampling_fails(params)
    THEN Raise(e, "ValueError")
    ELSE LET new == [rid |-> rid, status |-> "waiting",
                     prompt |-> Len(pi.prompt_token_ids), out |-> <<>>,
                     computed |-> 0, max_tokens |-> params.max_tokens,
                     stop |-> params.stop, n |-> params.n,
                     pooling |-> params.kind = "pooling",
                     blocks |-> 0, rem |-> 0]
         IN add_seq_group([e EXCEPT !.grp[g] = new], MinCostScheduler(e.sched), g)

\* LLMEngine.add_request
add_request(e, g, rid, inputs, params, lora, num_virtual_tokens) ==
    IF lora /\ ~cfg.lora_enabled THEN Raise(e, "ValueError")
    ELSE LET pi == process_model_inputs(inputs, num_virtual_tokens)
         IN IF pi.err # "none" THEN Raise(e, pi.err)
            ELSE add_processed_request(e, g, rid, pi, params)

(***************************************************************************)
(* LLMEngine.abort_request                                                 *)
(***************************************************************************)
RECURSIVE AbortFrom(_, _, _)
AbortFrom(e, rid, v) ==
    IF v > cfg.pipeline_parallel_size THEN e
    ELSE AbortFrom(abort_seq_group(e, v, rid), rid, v + 1)

\* abort_request that reaches the scheduler of the first virtual engine only
abort_request_first_only(e, rid) == abort_seq_group(e, 1, rid)

\* for scheduler in self.scheduler: scheduler.abort_seq_group(request_id)
abort_request(e, rid) == AbortFrom(e, rid, 1)


(***************************************************************************)
(* The inputs of the public calls                                          *)
(***************************************************************************)
\* a prompt of n tokens
Prompt(n) == [i \in 1..n |-> BosTokenId + 1]

\* prompt lengths: empty, ordinary, one that can never fit in the cache,
\* one longer than max_model_len
PromptLens ==
    {0, MaxModelLen + 1}
    \cup 1..MaxPrompt
    \cup {n \in {NumGpuBlocks * BlockSize + 1} : n <= MaxModelLen}

\* prompts within max_model_len that need more blocks than the cache has
NeverFitLens == {n \in {NumGpuBlocks * BlockSize + 1} : n <= MaxModelLen}

SingletonInputs ==
    {[explicit |-> FALSE, enc |-> Prompt(n), dec_given |-> FALSE, dec |-> <<>>] :
        n \in PromptLens}

\* explicit encoder/decoder prompts: the decoder prompt is None, empty, or
\* one token
ExplicitInputs ==
    {i \in [explicit : {TRUE}, enc : {Prompt(0), Prompt(1)}, dec_given : BOOLEAN,
            dec : {<<>>, <<BosTokenId>>, <<BosTokenId + 1>>}] :
        ~i.dec_given => i.dec = <<>>}

PoolingParams ==
    [kind |-> "pooling", max_tokens |-> 0, stop |-> FALSE, n |-> 1,
     logprobs |-> 0, prompt_logprobs |-> 0]

\* logprobs = 0 stands for None.  A stop string is what makes a request
\* ineligible for asynchronous processing, so it is varied where that
\* processing is configured
SamplingParams ==
    [kind : {"sampling"}, max_tokens : {MaxTokens},
     stop : IF cfg.use_async_output_proc THEN BOOLEAN ELSE {FALSE},
     n : {1}, logprobs : {0}, prompt_logprobs : {0}]

LogprobsParams ==
    {q \in [kind : {"sampling"}, max_tokens : {1}, stop : {FALSE}, n : {1},
            logprobs : {0, MaxLogprobs, MaxLogprobs + 1},
            prompt_logprobs : {0, MaxLogprobs, MaxLogprobs + 1}] :
        q.logprobs = 0 \/ q.prompt_logprobs = 0}

\* the slots that hold no SequenceGroup object
FreeSlots == {g \in Slots : grp[g].status = "none"}

\* for a step() call op also tells whether it called schedule(), whether
\* the decision it used allowed asynchronous processing, how many sampler
\* outputs execute_model returned, and the counts of the engine record
NoOp ==
    [name |-> "init", rid |-> 0, slot |-> 0, raw_empty |-> FALSE,
     validated_empty |-> FALSE, too_long |-> FALSE, logprobs_over |-> FALSE,
     explicit |-> FALSE, lora |-> FALSE, never_fit |-> FALSE,
     scheduled |-> FALSE, allow_async |-> FALSE, executed |-> 0, enq |-> 0,
     psync |-> 0, pasync |-> 0, mismatch |-> FALSE]

Commit(e) ==
    /\ grp' = e.grp
    /\ sched' = e.sched
    /\ output_queue' = e.oq
    /\ cached' = e.cached
    /\ err' = e.err

\* objects nothing refers to are deallocated as soon as the last reference
\* goes (reference counting), before the next call
Collect ==
    /\ Garbage # {}
    /\ grp' = [g \in Slots |-> IF g \in Garbage THEN NoGroup ELSE grp[g]]
    /\ request_outputs' = Detach(request_outputs, Garbage)
    /\ op' = [NoOp EXCEPT !.name = "collect"]
    /\ UNCHANGED <<cfg, sched, output_queue, cached, err, batch, stale, dropped, bm, decoder_input_ids>>

\* one call of add_request
DoAddRequest(rid, inputs, params, lora, num_virtual_tokens) ==
    /\ Garbage = {}
    /\ FreeSlots # {}
    /\ LET g == CHOOSE x \in FreeSlots : \A y \in FreeSlots : x <= y
           e == add_request(Eng, g, rid, inputs, params, lora, num_virtual_tokens)
           pi == process_model_inputs(inputs, num_virtual_tokens)
       IN /\ Commit(e)
          /\ op' = [name |-> "add_request", rid |-> rid,
                    slot |-> IF e.err = "none" THEN g ELSE 0,
                    raw_empty |-> Len(inputs.enc) = 0,
                    validated_empty |-> pi.err = "none" /\ validate_model_inputs_fails(pi),
                    too_long |-> Len(inputs.enc) > MaxModelLen,
                    logprobs_over |-> create_sequence_group_with_sampling_fails(params),
                    explicit |-> inputs.explicit, lora |-> lora,
                    never_fit |-> Len(inputs.enc) \in NeverFitLens,
                    scheduled |-> FALSE, allow_async |-> FALSE, executed |-> 0,
                    enq |-> 0, psync |-> 0, pasync |-> 0, mismatch |-> FALSE]
          /\ UNCHANGED <<cfg, request_outputs, batch, stale, dropped, bm, decoder_input_ids>>

\* add_request with a token prompt and sampling (or, for an embedding
\* model, pooling) parameters
AddRequest ==
    \E rid \in RequestIds,
       inputs \in {i \in SingletonInputs :
                     Len(i.enc) \in {0, MaxPrompt} \cup
                        (IF Len(request_outputs) < MaxOutputs
                         THEN {MaxModelLen + 1} ELSE {})},
       params \in IF cfg.embedding_mode THEN {PoolingParams} ELSE SamplingParams :
        DoAddRequest(rid, inputs, params, FALSE, 0)

\* add_request with an ordinary prompt or with one that can never fit in
\* the cache
AddUnfitting ==
    \E inputs \in {i \in SingletonInputs :
                     Len(i.enc) \in {MaxPrompt} \cup
                        (IF Len(request_outputs) < MaxOutputs
                         THEN NeverFitLens ELSE {})},
       params \in SamplingParams :
        DoAddRequest(1, inputs, params, FALSE, 0)

\* the requests the validation is about: a plain request changed in one
\* respect (the prompt and a prompt adapter, an explicit encoder/decoder
\* prompt, the logprobs, a LoRA request)
Submissions ==
    LET plain == CHOOSE q \in LogprobsParams : q.logprobs = 0 /\ q.prompt_logprobs = 0
        one == CHOOSE i \in SingletonInputs : Len(i.enc) = 1
    IN {[inputs |-> i, params |-> plain, lora |-> FALSE, num_virtual_tokens |-> n] :
            i \in {j \in SingletonInputs : Len(j.enc) \in {0, 1, MaxModelLen + 1}},
            n \in {0, 1}}
       \cup {[inputs |-> i, params |-> plain, lora |-> FALSE, num_virtual_tokens |-> 0] :
               i \in ExplicitInputs}
       \cup {[inputs |-> one, params |-> q, lora |-> FALSE, num_virtual_tokens |-> 0] :
               q \in LogprobsParams}
       \cup {[inputs |-> one, params |-> plain, lora |-> TRUE, num_virtual_tokens |-> 0]}

\* add_request with one of these requests; the validation does not look
\* at the request id
Submit ==
    \E r \in Submissions :
        DoAddRequest(1, r.inputs, r.params, r.lora, r.num_virtual_tokens)

\* one call of abort_request; the RequestOutputs made earlier from a group
\* it aborts are marked
AbortRequest ==
    /\ Garbage = {}
    /\ \E rid \in RequestIds :
        LET e == abort_request(Eng, rid)
            S == {g \in Slots : e.grp[g].status = "aborted" /\ grp[g].status # "aborted"}
        IN /\ Commit(e)
           /\ request_outputs' =
                 [k \in 1..Len(request_outputs) |->
                     IF request_outputs[k].g \in S
                     THEN [request_outputs[k] EXCEPT !.dead = TRUE]
                     ELSE request_outputs[k]]
           /\ op' = [NoOp EXCEPT !.name = "abort_request", !.rid = rid]
           /\ UNCHANGED <<cfg, batch, stale, dropped, bm, decoder_input_ids>>

\* what the sampler can return for one sequence
Samples == IF cfg.embedding_mode THEN {EosTokenId} ELSE TokenIds

\* queue entries that stay in the queue when step() returns grow older
Aged(q) == [k \in 1..Len(q) |-> [q[k] EXCEPT !.age = IF @ < 2 THEN @ + 1 ELSE @]]

\* step() returns or raises: e is the engine at that point, d the decision,
\* n the number of sampler outputs the executor returned
StepReturn(e, d, n) ==
    /\ Commit(e)
    /\ request_outputs' = e.ro
    /\ op' = [NoOp EXCEPT !.name = "step", !.scheduled = d.fresh,
                          !.allow_async = d.allow_async,
                          !.executed = n, !.enq = e.enq,
                          !.psync = e.psync, !.pasync = e.pasync,
                          !.mismatch = e.mismatch]
    /\ batch' = e.batch
    /\ stale' = e.stale
    /\ dropped' = SubSeq(e.created, 1, Len(e.created) - (Len(e.ro) - e.stale))
    /\ UNCHANGED <<cfg, bm, decoder_input_ids>>

\* step() with the decision d; the executor returns any sampler outputs
StepWith(d) ==
    \E output \in [1..NumOutputs(d.e, d) -> [1..Len(d.meta) -> Samples]] :
        StepReturn(step([Eng EXCEPT !.oq = Aged(@)], d, output), d, Len(output))

\* step() with the decision d, when the executor raises
StepRaisesWith(d) ==
    /\ d.meta # <<>>
    /\ \E ran_callback \in IF d.allow_async THEN BOOLEAN ELSE {FALSE} :
          StepReturn(StepExecuteRaises(StepSchedule([Eng EXCEPT !.oq = Aged(@)], d),
                                       d, ran_callback), d, 0)

\* one call of step in which ModelExecutor.execute_model raises
StepExecutorError ==
    /\ Garbage = {}
    /\ cfg.pipeline_parallel_size = 1
    /\ StepRaisesWith(Decide([Eng EXCEPT !.oq = Aged(@)]))

\* add_request with an ordinary prompt
AddPlain ==
    \E inputs \in {i \in SingletonInputs : Len(i.enc) = MaxPrompt},
       params \in SamplingParams :
        DoAddRequest(1, inputs, params, FALSE, 0)

\* add_request with a short prompt and room for two decode decisions
AddLong ==
    \E params \in [kind : {"sampling"}, max_tokens : {MaxTokens + 2}, stop : {FALSE},
                    n : {1}, logprobs : {0}, prompt_logprobs : {0}] :
        DoAddRequest(1, CHOOSE i \in SingletonInputs : Len(i.enc) = 1, params, FALSE, 0)

\* add_request with sampling parameters that ask for one or for several
\* samples, with or without a stop string
AddSampled ==
    \E inputs \in {i \in SingletonInputs : Len(i.enc) = MaxPrompt},
       params \in [kind : {"sampling"}, max_tokens : {MaxTokens}, stop : BOOLEAN,
                   n : 1..MaxN, logprobs : {0}, prompt_logprobs : {0}] :
        DoAddRequest(1, inputs, params, FALSE, 0)

\* add_request with a short prompt and room for several decode steps, so
\* that running groups outgrow the cache
AddGrowing ==
    \E rid \in RequestIds,
       inputs \in {i \in SingletonInputs : Len(i.enc) \in 1..MaxPrompt},
       params \in [kind : {"sampling"}, max_tokens : {MaxTokens + 2}, stop : {FALSE},
                   n : {1}, logprobs : {0}, prompt_logprobs : {0}] :
        DoAddRequest(rid, inputs, params, FALSE, 0)

\* add_request that lets the request generate up to max_model_len tokens:
\* one such sequence alone outgrows the cache
AddUnbounded ==
    \E rid \in RequestIds,
       inputs \in {i \in SingletonInputs : Len(i.enc) \in 1..MaxPrompt},
       params \in [kind : {"sampling"}, max_tokens : {MaxModelLen}, stop : {FALSE},
                   n : {1}, logprobs : {0}, prompt_logprobs : {0}] :
        DoAddRequest(rid, inputs, params, FALSE, 0)

\* add_request before the first step() call: the requests are all
\* submitted, then the caller only calls step()
AddFirst ==
    /\ op.name \in {"init", "add_request"}
    /\ \E inputs \in {i \in SingletonInputs : Len(i.enc) = MaxPrompt},
          params \in [kind : {"sampling"}, max_tokens : {MaxTokens + 2}, stop : {FALSE},
                      n : {1}, logprobs : {0}, prompt_logprobs : {0}] :
          DoAddRequest(MaxGroups - Cardinality(FreeSlots) + 1, inputs, params, FALSE, 0)

\* one call of step of an engine without pipeline parallelism; it is Step
\* with the engine bound once after each part of step()
StepOnce ==
    /\ Garbage = {}
    /\ cfg.pipeline_parallel_size = 1
    /\ \E e0 \in {[Eng EXCEPT !.oq = Aged(@)]} :
       \E d \in {Decide(e0)} :
       \E output \in [1..NumOutputs(d.e, d) -> [1..Len(d.meta) -> Samples]] :
       \E e1 \in {StepSchedule(e0, d)} :
       \E e2 \in {StepExecute(e1, d)} :
       \E e3 \in {StepOutput(e2, d, output)} :
       \E e4 \in {StepDrain(e3)} :
          StepReturn(e4, d, Len(output))

\* step() without the check of lines 1411-1414
StepIgnoresPipeline ==
    /\ Garbage = {}
    /\ \E e0 \in {[Eng EXCEPT !.oq = Aged(@)]} :
       \E d \in {Decide(e0)} :
       \E output \in [1..NumOutputs(d.e, d) -> [1..Len(d.meta) -> Samples]] :
          StepReturn(StepDrain(StepOutput(StepExecute(StepSchedule(e0, d), d), d, output)),
                     d, Len(output))

\* one call of step
Step ==
    /\ Garbage = {}
    /\ IF cfg.pipeline_parallel_size > 1
       THEN /\ err' = "NotImplementedError"
            /\ op' = [NoOp EXCEPT !.name = "step"]
            /\ batch' = {}
            /\ stale' = 0
            /\ dropped' = <<>>
            /\ UNCHANGED <<cfg, grp, sched, output_queue, request_outputs, cached, bm, decoder_input_ids>>
       ELSE StepWith(Decide([Eng EXCEPT !.oq = Aged(@)]))

(***************************************************************************)
(* The calls the scheduler and the output processor make to the block      *)
(* manager                                                                 *)
(***************************************************************************)
EngineVars == <<cfg, grp, sched, output_queue, request_outputs, cached, op, err,
                batch, stale, dropped, decoder_input_ids>>

\* the sequence ids not in use
FreeSeqIds == {s \in SeqIds : bm.st[s] = "none"}

\* the group ids not in use
FreeGroupIds == {g \in SeqIds : SeqsOf(bm, g) = {}}

\* a new group of n sibling sequences is admitted
BmAllocate ==
    \E n \in 1..MaxN, prompt_len \in 1..(MaxPrompt + 1) :
        /\ Cardinality(FreeSeqIds) >= n
        /\ can_allocate(bm, prompt_len)
        /\ bm' = allocate(bm, SeqToSet(Take(FreeSeqIds, n)),
                          Take(FreeGroupIds, 1)[1], prompt_len)
        /\ UNCHANGED EngineVars

\* a running sequence is extended by one token
BmAppendSlot ==
    \E s \in SeqIds :
        /\ bm.st[s] = "running"
        /\ bm.len[s] < MaxModelLen
        /\ can_append_slot(bm, s)
        /\ bm' = append_slot(bm, s)
        /\ UNCHANGED EngineVars

\* a running sequence is forked (beam search, several samples)
BmFork ==
    \E parent \in SeqIds :
        /\ bm.st[parent] = "running"
        /\ FreeSeqIds # {}
        /\ Cardinality(SeqsOf(bm, bm.group[parent])) < MaxN
        /\ bm' = fork(bm, parent, Take(FreeSeqIds, 1)[1])
        /\ UNCHANGED EngineVars

\* a sequence is freed: finished, aborted, or an evicted beam
BmFree ==
    \E s \in SeqIds :
        /\ bm.st[s] # "none"
        /\ bm' = free(bm, s)
        /\ UNCHANGED EngineVars

\* a running group is preempted by swap
BmSwapOut ==
    \E s \in SeqIds :
        /\ bm.st[s] = "running"
        /\ can_swap_out(bm, bm.group[s])
        /\ bm' = swap_out(bm, bm.group[s])
        /\ UNCHANGED EngineVars

\* a swapped group is resumed
BmSwapIn ==
    \E s \in SeqIds :
        /\ bm.st[s] = "swapped"
        /\ can_swap_in(bm, bm.group[s])
        /\ bm' = swap_in(bm, bm.group[s])
        /\ UNCHANGED EngineVars

(***************************************************************************)
(* Specifications                                                          *)
(***************************************************************************)
\* with multi-step scheduling the scheduler never allows asynchronous
\* processing, so the flag is only varied in single-step mode
Configs ==
    {c \in [use_async_output_proc : BOOLEAN,
            num_scheduler_steps : NumSchedulerSteps,
            pipeline_parallel_size : PipelineParallelSizes,
            step_return_finished_only : {FALSE},
            embedding_mode : {FALSE},
            num_gpu_blocks : {NumGpuBlocks},
            is_encoder_decoder_model : {FALSE},
            lora_enabled : {FALSE},
            decoder_start_token_id : {NoTokenId},
            preemption_mode : {"recompute"},
            max_num_seqs : {MaxNumSeqs},
            max_num_batched_tokens : {MaxNumBatchedTokens}] :
        /\ c.use_async_output_proc => c.num_scheduler_steps = 1
        /\ c.pipeline_parallel_size > 1 =>
              ~c.use_async_output_proc /\ c.num_scheduler_steps = 1}

\* the configurations the validation of add_request depends on;
\* decoder_start_token_id is read for an encoder/decoder model only
AdmitConfigs ==
    {c \in [use_async_output_proc : {FALSE},
            num_scheduler_steps : {1},
            pipeline_parallel_size : {1},
            step_return_finished_only : {FALSE},
            embedding_mode : {FALSE},
            num_gpu_blocks : {NumGpuBlocks},
            is_encoder_decoder_model : BOOLEAN,
            lora_enabled : BOOLEAN,
            decoder_start_token_id : {NoTokenId, BosTokenId + 1},
            preemption_mode : {"recompute"},
            max_num_seqs : {MaxNumSeqs},
            max_num_batched_tokens : {MaxNumBatchedTokens}] :
        /\ ~c.is_encoder_decoder_model => c.decoder_start_token_id = NoTokenId
        /\ c.is_encoder_decoder_model => ~c.lora_enabled}

\* single-step configurations with and without asynchronous processing
\* and with either value of step_return_finished_only
FinishedOnlyConfigs ==
    [use_async_output_proc : BOOLEAN,
     num_scheduler_steps : {1},
     pipeline_parallel_size : {1},
     step_return_finished_only : BOOLEAN,
     embedding_mode : {FALSE},
     num_gpu_blocks : {NumGpuBlocks},
     is_encoder_decoder_model : {FALSE},
     lora_enabled : {FALSE},
     decoder_start_token_id : {NoTokenId},
     preemption_mode : {"recompute"},
     max_num_seqs : {MaxNumSeqs},
     max_num_batched_tokens : {MaxNumBatchedTokens}]

\* multi-step configurations, with use_async_output_proc set or not
MultiStepConfigs ==
    [use_async_output_proc : BOOLEAN,
     num_scheduler_steps : 2..MaxSteps,
     pipeline_parallel_size : {1},
     step_return_finished_only : {FALSE},
     embedding_mode : {FALSE},
     num_gpu_blocks : {NumGpuBlocks},
     is_encoder_decoder_model : {FALSE},
     lora_enabled : {FALSE},
     decoder_start_token_id : {NoTokenId},
     preemption_mode : {"recompute"},
     max_num_seqs : {MaxNumSeqs},
     max_num_batched_tokens : {MaxNumBatchedTokens}]

\* single-step configurations with either preemption mode
\* synchronous single-step engines that preempt by swap
SwapConfigs ==
    [use_async_output_proc : {FALSE},
     num_scheduler_steps : {1},
     pipeline_parallel_size : {1},
     step_return_finished_only : {FALSE},
     embedding_mode : {FALSE},
     num_gpu_blocks : {NumGpuBlocks},
     is_encoder_decoder_model : {FALSE},
     lora_enabled : {FALSE},
     decoder_start_token_id : {NoTokenId},
     preemption_mode : {"swap"},
     max_num_seqs : {MaxNumSeqs},
     max_num_batched_tokens : {MaxNumBatchedTokens}]

PreemptConfigs ==
    [use_async_output_proc : BOOLEAN,
     num_scheduler_steps : {1},
     pipeline_parallel_size : {1},
     step_return_finished_only : {FALSE},
     embedding_mode : {FALSE},
     num_gpu_blocks : {NumGpuBlocks},
     is_encoder_decoder_model : {FALSE},
     lora_enabled : {FALSE},
     decoder_start_token_id : {NoTokenId},
     preemption_mode : {"recompute", "swap"},
     max_num_seqs : {MaxNumSeqs},
     max_num_batched_tokens : {MaxNumBatchedTokens}]

\* single-step and multi-step configurations of a generation model, and
\* an embedding model
FinishConfigs ==
    {c \in [use_async_output_proc : BOOLEAN,
            num_scheduler_steps : NumSchedulerSteps,
            pipeline_parallel_size : {1},
            step_return_finished_only : {FALSE},
            embedding_mode : BOOLEAN,
            num_gpu_blocks : {NumGpuBlocks},
            is_encoder_decoder_model : {FALSE},
            lora_enabled : {FALSE},
            decoder_start_token_id : {NoTokenId},
            preemption_mode : {"recompute"},
            max_num_seqs : {MaxNumSeqs},
            max_num_batched_tokens : {MaxNumBatchedTokens}] :
        /\ c.use_async_output_proc => c.num_scheduler_steps = 1
        /\ c.embedding_mode => ~c.use_async_output_proc /\ c.num_scheduler_steps = 1}

\* the budgets of a batch: the largest values and smaller ones
MaxNumSeqsValues == {1, MaxNumSeqs}

MaxNumBatchedTokensValues == {MaxNumBatchedTokens \div 2, MaxNumBatchedTokens}

\* single-step configurations with either preemption mode and with wide
\* and narrow batch budgets
BudgetConfigs ==
    [use_async_output_proc : {FALSE},
     num_scheduler_steps : {1},
     pipeline_parallel_size : {1},
     step_return_finished_only : {FALSE},
     embedding_mode : {FALSE},
     num_gpu_blocks : {NumGpuBlocks},
     is_encoder_decoder_model : {FALSE},
     lora_enabled : {FALSE},
     decoder_start_token_id : {NoTokenId},
     preemption_mode : {"recompute", "swap"},
     max_num_seqs : MaxNumSeqsValues,
     max_num_batched_tokens : MaxNumBatchedTokensValues]

\* the largest decoder prompt given to
\* _prepare_decoder_input_ids_for_generation, and how often it is applied
MaxDecoderPrompt == 3
MaxCalls == 2

\* the token ids of a decoder prompt: the BOS id and two others
DecoderTokenIds == {EosTokenId, BosTokenId, BosTokenId + 1}

RECURSIVE SeqsUpTo(_, _)
\* the sequences over S of length at most n
SeqsUpTo(S, n) ==
    IF n = 0 THEN {<<>>}
    ELSE LET shorter == SeqsUpTo(S, n - 1)
         IN shorter \cup {Append(q, x) : q \in {r \in shorter : Len(r) = n - 1}, x \in S}

\* no decoder prompt: decoder_input_ids is None
NoDecoderInput == [given |-> FALSE, ids |-> <<>>, calls |-> 0]

\* the arguments of _prepare_decoder_input_ids_for_generation: None, or a
\* list of token ids
DecoderInputs ==
    {NoDecoderInput}
    \cup {[given |-> TRUE, ids |-> q, calls |-> 0] :
            q \in SeqsUpTo(DecoderTokenIds, MaxDecoderPrompt)}

\* the engine after __init__, for the configuration c, and a decoder prompt
ConstructedWith(c, input) ==
    /\ cfg = c
    /\ decoder_input_ids = input
    /\ grp = [g \in Slots |-> NoGroup]
    /\ sched = [v \in 1..c.pipeline_parallel_size |->
                [NewScheduler EXCEPT !.free = c.num_gpu_blocks]]
    /\ output_queue = <<>>
    /\ request_outputs = <<>>
    /\ cached = NoCached
    /\ op = NoOp
    /\ err = "none"
    /\ batch = {}
    /\ stale = 0
    /\ dropped = <<>>
    /\ bm = NewBlockManager

\* the engine after __init__, for the configuration c
Constructed(c) == ConstructedWith(c, NoDecoderInput)

Init == \E c \in Configs : Constructed(c)

Next == AddRequest \/ AbortRequest \/ Step \/ Collect

Spec == Init /\ [][Next]_vars

\* encoder/decoder models with and without a decoder_start_token_id in
\* their configuration, equal to the BOS id or not
DecoderConfigs ==
    {[c EXCEPT !.is_encoder_decoder_model = TRUE, !.decoder_start_token_id = t] :
        c \in {k \in Configs : k.pipeline_parallel_size = 1
                                /\ k.num_scheduler_steps = 1
                                /\ ~k.use_async_output_proc},
        t \in {NoTokenId, BosTokenId, BosTokenId + 1}}

\* _prepare_decoder_input_ids_for_generation is called on the decoder
\* prompt, and then on its own result
PrepareDecoderInputIds ==
    /\ decoder_input_ids.calls < MaxCalls
    /\ decoder_input_ids' =
          [given |-> TRUE,
           ids |-> prepare_decoder_input_ids_for_generation(
                       decoder_input_ids.given, decoder_input_ids.ids),
           calls |-> decoder_input_ids.calls + 1]
    /\ UNCHANGED <<cfg, grp, sched, output_queue, request_outputs, cached, op, err,
                   batch, stale, dropped, bm>>

InitDecoder == \E c \in DecoderConfigs, input \in DecoderInputs : ConstructedWith(c, input)

NextDecoder == PrepareDecoderInputIds

SpecDecoder == InitDecoder /\ [][NextDecoder]_vars

InitAdmit == \E c \in AdmitConfigs : Constructed(c)

NextAdmit == Submit \/ AbortRequest \/ Step \/ Collect

SpecAdmit == InitAdmit /\ [][NextAdmit]_vars

InitFail == \E c \in {k \in Configs : k.pipeline_parallel_size = 1} : Constructed(c)

NextFail == AddPlain \/ AbortRequest \/ Step \/ StepExecutorError \/ Collect

SpecFail == InitFail /\ [][NextFail]_vars

InitMulti == \E c \in MultiStepConfigs : Constructed(c)

NextMulti == AddLong \/ AbortRequest \/ Step \/ Collect

SpecMulti == InitMulti /\ [][NextMulti]_vars

\* a cache with room for two groups that decode with lookahead slots
LockstepGpuBlocks == NumGpuBlocks + 1

\* multi-step engines serving several requests at once
LockstepConfigs ==
    {[c EXCEPT !.num_gpu_blocks = LockstepGpuBlocks] : c \in MultiStepConfigs}

InitLockstep == \E c \in LockstepConfigs : Constructed(c)

NextLockstep == AddFirst \/ AbortRequest \/ Step \/ Collect

SpecLockstep == InitLockstep /\ [][NextLockstep]_vars

InitSampling ==
    \E c \in {k \in Configs : k.use_async_output_proc} : Constructed(c)

NextSampling == AddSampled \/ AbortRequest \/ Step \/ Collect

SpecSampling == InitSampling /\ [][NextSampling]_vars

InitRoute ==
    \E c \in {k \in Configs : k.pipeline_parallel_size > 1} : Constructed(c)

NextRoute == AddRequest \/ AbortRequest \/ Step \/ Collect

SpecRoute == InitRoute /\ [][NextRoute]_vars

InitIgnored == \E c \in FinishedOnlyConfigs : Constructed(c)

NextIgnored == AddUnfitting \/ AbortRequest \/ Step \/ Collect

SpecIgnored == InitIgnored /\ [][NextIgnored]_vars

InitPreempt == \E c \in PreemptConfigs : Constructed(c)

NextPreempt == AddGrowing \/ AbortRequest \/ Step \/ Collect

SpecPreempt == InitPreempt /\ [][NextPreempt]_vars

InitSwap == \E c \in SwapConfigs : Constructed(c)

NextSwap == AddUnbounded \/ AbortRequest \/ Step \/ Collect

SpecSwap == InitSwap /\ [][NextSwap]_vars

\* the caller submits its requests and then calls step() again and again
\* (the loop of the docstring, lines 1396-1409)
NextLive == AddFirst \/ StepOnce \/ Collect

SpecLive == InitPreempt /\ [][NextLive]_vars /\ WF_vars(StepOnce) /\ WF_vars(Collect)

InitFinish == \E c \in FinishConfigs : Constructed(c)

NextFinish == AddRequest \/ AbortRequest \/ Step \/ Collect

SpecFinish == InitFinish /\ [][NextFinish]_vars

InitBudget == \E c \in BudgetConfigs : Constructed(c)

NextBudget == AddGrowing \/ AbortRequest \/ Step \/ Collect

SpecBudget == InitBudget /\ [][NextBudget]_vars

InitBlocks == Constructed(CHOOSE c \in AdmitConfigs : TRUE)

NextBlocks ==
    BmAllocate \/ BmAppendSlot \/ BmFork \/ BmFree \/ BmSwapOut \/ BmSwapIn

SpecBlocks == InitBlocks /\ [][NextBlocks]_vars

(***************************************************************************)
(* Properties                                                              *)
(***************************************************************************)
\* the RequestOutputs the last step() returned that it also returned before
Stale == SubSeq(request_outputs, 1, stale)

\* a RequestOutput that reports its request finished by stop or by length
IsFinal(ro) == ro.finished /\ ro.finish_reason \in {"stopped", "length"}

\* no scheduler holds a request and nothing waits for post-processing
Idle ==
    /\ \A v \in DOMAIN sched : ~has_unfinished_seqs(sched[v])
    /\ output_queue = <<>>

\* C1: the RequestOutput that reports a request finished by stop or by
\* length is returned by exactly one step() call: no step() creates it
\* without returning it, and no step() returns it a second time.
C1_FinalOutputExactlyOnce ==
    op.name = "step" =>
        /\ \A k \in 1..Len(dropped) : ~IsFinal(dropped[k])
        /\ \A k \in 1..Len(Stale) : ~IsFinal(Stale[k])

\* C2: a step() call on an engine with no waiting, running or swapped
\* request and an empty output_queue returns the empty list and leaves the
\* scheduler queues, the block accounting and the sequences unchanged.
C2_IdleStepIsNoOp ==
    [][(Idle /\ op'.name = "step" /\ err' = "none") =>
            /\ request_outputs' = <<>>
            /\ sched' = sched
            /\ grp' = grp]_vars

\* C3: with asynchronous post-processing, the outputs of the model step
\* that step() call k submitted are returned by the return of call k+1:
\* when step() returns, no queue entry is older than the call itself and
\* no RequestOutput was created without being returned.
C3_AsyncOutputsByNextStep ==
    (cfg.use_async_output_proc /\ op.name = "step" /\ err = "none") =>
        /\ \A k \in 1..Len(output_queue) : output_queue[k].age = 0
        /\ dropped = <<>>

\* s is a prefix of t
IsPrefix(s, t) == Len(s) <= Len(t) /\ SubSeq(t, 1, Len(s)) = s

\* the RequestOutputs the last step() returned for the first time
Fresh == SubSeq(request_outputs, stale + 1, Len(request_outputs))

\* the groups of a queue entry whose sampler output waits for post-processing
Pending(ent) == {ent.meta[i].g : i \in {j \in 1..Len(ent.meta) : ent.meta[j].do_sample}}

\* C4: within one request tokens are delivered in generation order: the
\* token sequence of a RequestOutput is a prefix of the sequence's tokens,
\* which only grow at the end, so a newly returned RequestOutput has the
\* one returned before it for the same request as a prefix; queue entries
\* are processed oldest first and no unfinished request has two of its
\* model steps waiting for post-processing.
C4_TokensInGenerationOrder ==
    /\ [](\A k \in 1..Len(request_outputs) :
            request_outputs[k].g # 0 =>
                IsPrefix(request_outputs[k].out, grp[request_outputs[k].g].out))
    /\ [][\A g \in Slots :
            (grp[g].status # "none" /\ grp'[g].status # "none") =>
                IsPrefix(grp[g].out, grp'[g].out)]_vars
    /\ [][op'.name = "step" =>
            \A k \in 1..Len(request_outputs), l \in 1..Len(Fresh') :
                (request_outputs[k].g # 0 /\ request_outputs[k].g = Fresh'[l].g) =>
                    IsPrefix(request_outputs[k].out, Fresh'[l].out)]_vars
    /\ [](\A k \in 1..Len(output_queue), l \in 1..Len(output_queue) :
            k < l =>
                /\ output_queue[k].age >= output_queue[l].age
                /\ \A g \in Pending(output_queue[k]) \cap Pending(output_queue[l]) :
                      is_finished(grp[g]))

\* a request returned with one token and later with two
C4_Witness ==
    /\ op.name = "step"
    /\ \E k \in 1..Len(Fresh) :
          /\ Fresh[k].g # 0
          /\ Len(Fresh[k].out) = 2
          /\ ~Fresh[k].finished \/ cfg.use_async_output_proc

\* C5: the batch step() hands to the executor contains no aborted request.
C5_AbortedNotInBatch ==
    op.name = "step" => \A g \in batch : grp[g].status # "aborted"

\* C6: no step() returns a RequestOutput of a request that was aborted
\* before the call, and post-processing leaves an aborted request alone:
\* it gets no token, no stop check and no num_computed_tokens update.
C6_NoOutputAfterAbort ==
    /\ [](op.name = "step" =>
            \A k \in 1..Len(request_outputs) :
                /\ ~request_outputs[k].dead
                /\ request_outputs[k].finish_reason # "aborted")
    /\ [][\A g \in Slots :
            (grp[g].status = "aborted" /\ op'.name = "step") =>
                /\ grp'[g].status = "aborted"
                /\ grp'[g].out = grp[g].out
                /\ grp'[g].computed = grp[g].computed]_vars

\* C7: abort_request raises nothing; aborting an id that is in no queue of
\* any scheduler changes no scheduler, block or sequence state; after the
\* call no scheduler of any virtual engine holds a request with the id,
\* and aborting it again leaves the state as it is.
C7_AbortIdempotentAndTotal ==
    /\ [](op.name = "abort_request" =>
            /\ err = "none"
            /\ \A v \in DOMAIN sched : \A g \in Queued(sched[v]) : grp[g].rid # op.rid
            /\ abort_request(Eng, op.rid) = Eng)
    /\ [][(/\ op'.name = "abort_request"
           /\ \A v \in DOMAIN sched : \A g \in Queued(sched[v]) : grp[g].rid # op'.rid) =>
              /\ sched' = sched
              /\ grp' = grp]_vars

\* abort_request aborted a request held by the scheduler of the second
\* virtual engine
C7_Witness ==
    /\ op.name = "abort_request"
    /\ cfg.pipeline_parallel_size = 2
    /\ op.rid \in sched[2].finished_ids
    /\ \E g \in Slots : grp[g].rid = op.rid /\ grp[g].status = "aborted"

\* C8: at every moment at most one unfinished sequence group exists per
\* request id across all schedulers, and an add_request whose id is
\* that of an unfinished group raises and admits nothing.
C8_DuplicateRejected ==
    /\ [](\A g \in Slots, h \in Slots :
            (/\ g # h
             /\ \E v \in DOMAIN sched : g \in Queued(sched[v])
             /\ \E v \in DOMAIN sched : h \in Queued(sched[v])) =>
                grp[g].rid # grp[h].rid)
    /\ [][(/\ op'.name = "add_request"
           /\ \E v \in DOMAIN sched : \E g \in Queued(sched[v]) : grp[g].rid = op'.rid) =>
              /\ err' # "none"
              /\ sched' = sched]_vars

\* the request of the last add_request is one the validation is to reject
\* whatever its prompt
InvalidParams(o) ==
    \/ o.logprobs_over
    \/ o.explicit /\ ~cfg.is_encoder_decoder_model
    \/ o.lora /\ ~cfg.lora_enabled

\* C9: add_request raises and admits nothing (no scheduler gets a group,
\* get_num_unfinished_requests() is unchanged) when the prompt is empty,
\* when logprobs or prompt_logprobs exceeds max_logprobs, when an explicit
\* encoder/decoder prompt is given to a decoder-only model, or when a LoRA
\* request is given without a LoRA configuration.
C9_InvalidRequestRejected ==
    [][(op'.name = "add_request" /\ (op'.raw_empty \/ InvalidParams(op'))) =>
            /\ err' # "none"
            /\ sched' = sched
            /\ get_num_unfinished_requests(sched') = get_num_unfinished_requests(sched)]_vars

\* C10, as claimed: add_request with a prompt longer than max_model_len
\* raises and admits nothing.
C10_TooLongRejected ==
    (op.name = "add_request" /\ op.too_long) => (err # "none" /\ op.slot = 0)

\* C10, as the code has it: add_request does not look at max_model_len; a
\* request whose prompt is longer, and that passes the other validations,
\* raises nothing and joins the waiting queue of a scheduler.
C10_TooLongAdmitted ==
    [][(/\ op'.name = "add_request"
        /\ op'.too_long
        /\ ~op'.validated_empty
        /\ ~InvalidParams(op')) =>
            /\ err' = "none"
            /\ op'.slot # 0
            /\ \E v \in DOMAIN sched' :
                  /\ op'.slot \in SeqToSet(sched'[v].waiting)
                  /\ op'.slot \notin Queued(sched[v])
            /\ get_num_unfinished_requests(sched')
                  = get_num_unfinished_requests(sched) + 1]_vars

\* a request with a prompt longer than max_model_len is waiting
C10_Witness ==
    /\ op.name = "add_request"
    /\ op.too_long
    /\ err = "none"
    /\ op.slot # 0
    /\ grp[op.slot].status = "waiting"
    /\ grp[op.slot].prompt > MaxModelLen

\* C11: add_request does not reject a request whose prompt can never fit in
\* the cache; the scheduler marks it ignored and it is returned, finished,
\* by exactly one step() call: no step() creates its RequestOutput without
\* returning it, none returns it a second time, and no batch contains it.
C11_IgnoredReturnedOnce ==
    /\ (op.name = "add_request" /\ op.never_fit) => (err = "none" /\ op.slot # 0)
    /\ op.name = "step" =>
          /\ \A g \in batch : grp[g].status # "ignored"
          /\ \A k \in 1..Len(request_outputs) :
                request_outputs[k].finish_reason = "ignored" => request_outputs[k].finished
          /\ \A k \in 1..Len(dropped) : dropped[k].finish_reason # "ignored"
          /\ \A k \in 1..Len(Stale) : Stale[k].finish_reason # "ignored"

\* C12: with step_return_finished_only every RequestOutput step() returns
\* is that of a group that is finished, and every group that the
\* post-processing of a step() call finishes (by stop or by length) has its
\* final RequestOutput in the result of that call.
C12_FinishedOnlyReturnsFinals ==
    /\ []((cfg.step_return_finished_only /\ op.name = "step") =>
            \A k \in 1..Len(request_outputs) :
                /\ request_outputs[k].finished
                /\ request_outputs[k].g # 0 => is_finished(grp[request_outputs[k].g]))
    /\ [][(cfg.step_return_finished_only /\ op'.name = "step") =>
            \A g \in Slots :
                (/\ ~is_finished(grp[g])
                 /\ grp'[g].status \in {"stopped", "length"}) =>
                    \E k \in 1..Len(Fresh') : Fresh'[k].g = g /\ Fresh'[k].finished]_vars

\* C13: a step() call in which the executor raises mutates no sequence
\* state: no token is appended, num_computed_tokens does not change, no
\* status changes and no sequence that is not finished loses a block.
C13_ExecutorErrorMutatesNothing ==
    [][(op'.name = "step" /\ err' = "ExecutorError") =>
            \A g \in Slots :
                /\ grp'[g].out = grp[g].out
                /\ grp'[g].computed = grp[g].computed
                /\ grp'[g].status = grp[g].status
                /\ ~is_finished(grp[g]) => grp'[g].blocks >= grp[g].blocks]_vars

\* a queue without the ages of its entries
Ageless(q) == [k \in 1..Len(q) |-> [q[k] EXCEPT !.age = 0]]

\* C14: after a step() call in which the executor raised, the scheduler
\* queues and the block accounting, the finished-request-id list, the
\* cached multi-step decision and output_queue are what they were before
\* the call.
C14_ExecutorErrorRolledBack ==
    [][(op'.name = "step" /\ err' = "ExecutorError") =>
            /\ sched' = sched
            /\ cached' = cached
            /\ Ageless(output_queue') = Ageless(output_queue)]_vars

\* the groups of a cached decision
CachedGroups(c) == {c.meta[i].g : i \in 1..Len(c.meta)}

\* C15: in multi-step mode with N steps, a step() call that finds a cached
\* decision does not call the scheduler, runs the cached batch and uses up
\* one of its steps; a call that finds none schedules, and a decode
\* decision it caches has N - 1 steps left; a decision stays cached exactly
\* while it has steps left, and a call that leaves steps returns the empty
\* list.  So one decision serves exactly N consecutive calls.
C15_CachedDecisionReused ==
    /\ []((is_multi_step /\ op.name = "step" /\ err = "none" /\ cached.meta # <<>>) =>
            /\ request_outputs = <<>>
            /\ cached.so.num_lookahead_slots = cfg.num_scheduler_steps - 1
            /\ \A g \in CachedGroups(cached) :
                  grp[g].rem \in 1..(cfg.num_scheduler_steps - 1))
    /\ [][(is_multi_step /\ op'.name = "step" /\ cached.meta # <<>>) =>
            /\ err' = "none"
            /\ ~op'.scheduled
            /\ batch' = CachedGroups(cached)
            /\ \A g \in CachedGroups(cached) : grp'[g].rem = grp[g].rem - 1
            /\ IF \A g \in CachedGroups(cached) : grp'[g].rem = 0
               THEN cached' = NoCached
               ELSE cached' = cached]_vars
    /\ [][(is_multi_step /\ op'.name = "step" /\ err' = "none" /\ cached.meta = <<>>) =>
            /\ op'.scheduled
            /\ \A g \in CachedGroups(cached') :
                  grp'[g].rem = cfg.num_scheduler_steps - 1]_vars

\* a step() call in the middle of a decision: it reused the cached decision
\* and left steps for the next call
C15_Witness ==
    /\ is_multi_step
    /\ op.name = "step"
    /\ err = "none"
    /\ ~op.scheduled
    /\ batch # {}
    /\ cached.meta # <<>>
    /\ request_outputs = <<>>

AtExecute(d) == StepExecute(StepSchedule([Eng EXCEPT !.oq = Aged(@)], d), d)

\* what a step() call with the decision d does to the tokens and to
\* num_computed_tokens of every group, b being the engine when
\* execute_model has returned: a group of the batch that is not finished
\* gets the tokens sampled for it, once and in order, up to the one that
\* finishes it, and its num_computed_tokens grows by its chunk size, once;
\* every other group keeps both
AppendsOnce(d, b) ==
    \A g \in Slots :
        LET I == {i \in 1..Len(d.meta) : d.meta[i].g = g}
            m == d.meta[CHOOSE i \in I : TRUE]
            k == IF m.do_sample THEN op'.executed ELSE 0
            n == Len(grp'[g].out) - Len(b.grp[g].out)
        IN IF I = {} \/ is_finished(b.grp[g]) \/ op'.enq = 0
           THEN /\ grp'[g].out = b.grp[g].out
                /\ grp'[g].computed = b.grp[g].computed
           ELSE /\ IsPrefix(b.grp[g].out, grp'[g].out)
                /\ grp'[g].computed = b.grp[g].computed + m.chunk
                /\ n <= k
                /\ k > 0 => n >= 1
                /\ (~is_finished(grp'[g]) \/ ~is_multi_step) => n = k

C19_MultiStepSynchronous ==
    is_multi_step =>
        /\ err # "AssertionError"
        /\ output_queue = <<>>
        /\ (op.name = "step" /\ err = "none") =>
              /\ ~op.allow_async
              /\ op.pasync = 0
              /\ op.psync = op.enq

\* with use_async_output_proc set, a multi-step call enqueued the outputs
\* of a decision and post-processed them before it returned
C19_Witness ==
    /\ is_multi_step
    /\ cfg.use_async_output_proc
    /\ op.name = "step"
    /\ err = "none"
    /\ op.executed > 1
    /\ op.enq = 1
    /\ op.psync = 1
    /\ request_outputs # <<>>

\* C20: an add_request that admits a group appends it to the waiting queue
\* of one scheduler, the lowest-indexed of those with the fewest unfinished
\* groups before the call, and changes no other scheduler.
C20_RoutedToLeastLoaded ==
    [][(op'.name = "add_request" /\ err' = "none") =>
            \E v \in DOMAIN sched :
                /\ \A w \in DOMAIN sched :
                      /\ get_num_unfinished_seq_groups(sched[v])
                            <= get_num_unfinished_seq_groups(sched[w])
                      /\ get_num_unfinished_seq_groups(sched[w])
                            = get_num_unfinished_seq_groups(sched[v]) => v <= w
                /\ sched'[v] = [sched[v] EXCEPT !.waiting = Append(@, op'.slot)]
                /\ \A w \in DOMAIN sched \ {v} : sched'[w] = sched[w]]_vars

\* the new group went to the second scheduler because the first held more
C20_Witness ==
    /\ op.name = "add_request"
    /\ err = "none"
    /\ cfg.pipeline_parallel_size = 2
    /\ sched[2].waiting = <<op.slot>>
    /\ get_num_unfinished_seq_groups(sched[1]) = 1

C22_ComputedNeverDecreases ==
    [][\A g \in Slots :
          (grp[g].status # "none" /\ grp'[g].status # "none") =>
              grp'[g].computed >= grp[g].computed]_vars

\* the step() call that is about to run schedules, and its scheduler
\* preempts the running group g by recompute
PreemptedByRecompute(g) ==
    /\ cfg.pipeline_parallel_size = 1
    /\ grp[g].status = "running"
    /\ Decide([Eng EXCEPT !.oq = Aged(@)]).fresh
    /\ Decide([Eng EXCEPT !.oq = Aged(@)]).so.preempted > 0
    /\ Decide([Eng EXCEPT !.oq = Aged(@)]).e.grp[g].status = "waiting"

\* C22, as the scheduler has it: num_computed_tokens of a sequence never
\* decreases across a step, a post-processing pass, a swap-out or a
\* swap-in; the one exception is preemption by recompute, which resets it
\* to 0 so that the prompt is prefilled again.
C22_ComputedDecreasesOnlyOnRecompute ==
    [][\A g \in Slots :
          (grp[g].status # "none" /\ grp'[g].status # "none") =>
              \/ grp'[g].computed >= grp[g].computed
              \/ /\ op'.name = "step"
                 /\ PreemptedByRecompute(g)
                 /\ grp'[g].computed = 0]_vars

\* a group that has decoded is swapped out and keeps its
\* num_computed_tokens
C22_Witness ==
    /\ op.name = "step"
    /\ cfg.preemption_mode = "swap"
    /\ \E g \in Slots :
          /\ grp[g].status = "swapped"
          /\ grp[g].computed >= grp[g].prompt + 1

\* C23: once a sequence has a finished status (stopped, length-capped,
\* aborted or ignored) the status never changes again, whatever call
\* comes next: a step() with its scheduling, its pre-append and its
\* post-processing passes, an abort_request or an add_request.
C23_FinishedStatusIsFinal ==
    [][\A g \in Slots :
          (is_finished(grp[g]) /\ grp'[g].status # "none") =>
              /\ grp'[g].status = grp[g].status
              /\ grp'[g].out = grp[g].out]_vars

\* a step() call post-processed an entry that holds a group aborted before
\* the call
C23_Witness ==
    /\ op.name = "step"
    /\ err = "none"
    /\ op.psync + op.pasync > 0
    /\ \E g \in batch : grp[g].status = "aborted"

RECURSIVE SumChunks(_)
\* the tokens of a batch: the token chunk sizes of its groups, added up
SumChunks(meta) ==
    IF meta = <<>> THEN 0 ELSE Head(meta).chunk + SumChunks(Tail(meta))

\* the decision d keeps the budgets of a batch
WithinBudgets(d) ==
    /\ d.so.num_batched_tokens = SumChunks(d.meta)
    /\ d.so.num_batched_tokens <= cfg.max_num_batched_tokens
    /\ Len(d.meta) <= cfg.max_num_seqs

\* C24: in every decision the scheduler returns to step(),
\* num_batched_tokens is the number of tokens of the batch and is at most
\* max_num_batched_tokens, and the batch has at most max_num_seqs groups,
\* whether they were running, swapped in or newly admitted.
C24_DecisionWithinBudgets ==
    [][(op'.name = "step" /\ op'.scheduled /\ cfg.pipeline_parallel_size = 1) =>
            WithinBudgets(Decide([Eng EXCEPT !.oq = Aged(@)]))]_vars

\* a step() call scheduled a batch of one running group and left a request
\* waiting that the free blocks had room for: a budget kept it out
C24_Witness ==
    /\ op.name = "step"
    /\ op.scheduled
    /\ err = "none"
    /\ Len(sched[1].running) = 1
    /\ batch = SeqToSet(sched[1].running)
    /\ sched[1].waiting # <<>>
    /\ grp[Head(sched[1].waiting)].out = <<>>
    /\ BlocksFor(get_len(grp[Head(sched[1].waiting)])) <= sched[1].free

RECURSIVE SumTables(_, _)
\* the lengths of the block tables of the sequences of S, added up
SumTables(b, S) ==
    IF S = {} THEN 0
    ELSE LET s == CHOOSE x \in S : TRUE
         IN Len(b.table[s]) + SumTables(b, S \ {s})

\* C25, as claimed: the lengths of the block tables of all sequences, added
\* up, plus the number of free device blocks is the number of device blocks.
C25_TableLengthsConserved ==
    SumTables(bm, SeqIds) + Cardinality(bm.free) = NumGpuBlocks

\* the device (or host) blocks that appear in some block table
InTables(b, host) == UNION {BlocksOf(b.table[s], host) : s \in SeqIds}

\* C25, as the block manager has it: the number of distinct device blocks
\* in the block tables (a block that forked sequences share counts once, a
\* host block of a swapped-out group does not count) plus the number of
\* free device blocks is the number of device blocks, and no block is both
\* in a table and free; likewise for the host blocks.
C25_DistinctBlocksConserved ==
    /\ Cardinality(InTables(bm, FALSE)) + Cardinality(bm.free) = NumGpuBlocks
    /\ InTables(bm, FALSE) \cap bm.free = {}
    /\ Cardinality(InTables(bm, TRUE)) + Cardinality(bm.hfree) = NumCpuBlocks
    /\ InTables(bm, TRUE) \cap bm.hfree = {}

\* two forked sequences after a copy-on-write: they share a block and
\* each has a tail block of its own
C25_Witness ==
    \E s \in SeqIds, t \in SeqIds :
        /\ s # t
        /\ bm.st[s] = "running"
        /\ bm.st[t] = "running"
        /\ bm.group[s] = bm.group[t]
        /\ Len(bm.table[s]) = 2
        /\ Len(bm.table[t]) = 2
        /\ bm.table[s][1] = bm.table[t][1]
        /\ bm.table[s][2] # bm.table[t][2]

\* C26: no block that appears in a block table has ref-count 0, and no
\* block with a positive ref-count is on a free list; of the device blocks
\* and of the host blocks, across allocate, fork, copy-on-write, free,
\* swap-out and swap-in.
C26_RefCountsValid ==
    /\ \A x \in InTables(bm, FALSE) : bm.ref[x] > 0
    /\ \A x \in bm.free : bm.ref[x] = 0
    /\ \A x \in InTables(bm, TRUE) : bm.href[x] > 0
    /\ \A x \in bm.hfree : bm.href[x] = 0

\* a forked group is swapped out with a block its two sequences share,
\* while a sequence of another group runs
C26_Witness ==
    /\ \E x \in HostBlocks : bm.href[x] = 2
    /\ \E s \in SeqIds : bm.st[s] = "running" /\ bm.table[s] # <<>>

\* C27: for every sequence that has a block table (running or swapped), at
\* every instant, the number of its blocks times block_size is at least
\* its number of tokens, also between the moment a sampled token is
\* appended and the next call of the scheduler.
C27_BlocksCoverTokens ==
    \A g \in Slots :
        grp[g].status \in {"running", "swapped"} =>
            grp[g].blocks * BlockSize >= get_len(grp[g])

\* the blocks Phase A takes for the running group g
RunNeed(g) ==
    LET want == BlocksFor(get_len(grp[g]) + Lookahead) - grp[g].blocks
    IN IF want > 0 THEN want ELSE 0

RECURSIVE SumRunNeed(_)
SumRunNeed(S) ==
    IF S = {} THEN 0
    ELSE LET g == CHOOSE x \in S : TRUE
         IN RunNeed(g) + SumRunNeed(S \ {g})

\* the swapped group g can be resumed after every running group got its
\* slot: its blocks and one decode slot fit in the free device blocks, and
\* the batch has room for one more group
FitsAfterRunning(g) ==
    LET want == BlocksFor(get_len(grp[g]) + Lookahead)
        total == IF want > grp[g].blocks THEN want ELSE grp[g].blocks
        n == Len(sched[1].running)
    IN /\ total <= sched[1].free - SumRunNeed(SeqToSet(sched[1].running))
       /\ n + 1 <= cfg.max_num_seqs
       /\ n + 1 <= cfg.max_num_batched_tokens

\* C28: swapped groups are resumed in a tick if and only if the running
\* phase of that tick preempted nothing.  No decision has both a positive
\* preemption count and swapped-in groups; and a decision that preempted
\* nothing resumes the group swapped out first whenever it can be swapped
\* in with one decode slot.
C28_ResumeOnlyWithoutPreemption ==
    [][(op'.name = "step" /\ op'.scheduled /\ cfg.pipeline_parallel_size = 1) =>
          LET d == Decide([Eng EXCEPT !.oq = Aged(@)])
          IN /\ d.so.preempted > 0 => d.so.swapped_in = <<>>
             /\ (/\ d.fresh
                 /\ d.so.preempted = 0
                 /\ sched[1].swapped # <<>>
                 /\ FitsAfterRunning(Head(sched[1].swapped)))
                    => Head(sched[1].swapped) \in SeqToSet(d.so.swapped_in)]_vars

\* a step() preempted the only running group by recompute while a group
\* was swapped out: the freed blocks have room for the swapped group, and
\* it was not resumed
C28_Witness ==
    /\ op.name = "step"
    /\ op.scheduled
    /\ err = "none"
    /\ batch = {}
    /\ sched[1].running = <<>>
    /\ sched[1].swapped # <<>>
    /\ grp[Head(sched[1].swapped)].blocks <= sched[1].free
    /\ \E g \in SeqToSet(sched[1].waiting) : grp[g].out # <<>>

RECURSIVE PromptTokensScheduled(_, _)
\* the tokens the decision d schedules for the groups of S that have
\* computed no token yet
PromptTokensScheduled(d, S) ==
    IF S = {} THEN 0
    ELSE LET i == CHOOSE x \in S : TRUE
         IN (IF grp[d.meta[i].g].computed = 0 THEN d.meta[i].chunk ELSE 0)
            + PromptTokensScheduled(d, S \ {i})

\* C30: in the decision of every step() that calls the scheduler the
\* prefill groups (those that have computed no token yet) come first and
\* the decode groups after them: the entry at position idx (from 0) is a
\* prefill group if and only if idx < num_prefill_groups, so that the
\* statistics loop counts as prompt tokens exactly the tokens scheduled
\* for the prefill groups.
C30_PrefillGroupsFirst ==
    [][(op'.name = "step" /\ op'.scheduled /\ cfg.pipeline_parallel_size = 1) =>
          LET d == Decide([Eng EXCEPT !.oq = Aged(@)])
          IN /\ d.so.num_prefill_groups <= Len(d.meta)
             /\ \A i \in 1..Len(d.meta) :
                   group_was_prefill(d.so, i - 1) <=> grp[d.meta[i].g].computed = 0
             /\ num_prompt_tokens_iter(d, {}, 0)
                   = PromptTokensScheduled(d, 1..Len(d.meta))]_vars

\* a step() ran a batch of a prefill group, which has its first token,
\* and a decode group
C30_Witness ==
    /\ op.name = "step"
    /\ op.scheduled
    /\ err = "none"
    /\ \E g \in batch, h \in batch :
          /\ g # h
          /\ Len(grp[g].out) = 1
          /\ grp[g].computed = grp[g].prompt
          /\ Len(grp[h].out) >= 2

\* C31: when schedule() returns a decision that is not async-eligible
\* while an entry is pending in output_queue, the entry is post-processed
\* (as an asynchronous one) before execute_model is called: the engine that
\* reaches execute_model has an empty queue; the outputs of the new
\* decision are enqueued and processed after it, synchronously, and the
\* call returns with an empty queue.
C31_PendingDrainedBeforeExecute ==
    [][(op'.name = "step" /\ cfg.pipeline_parallel_size = 1) =>
          LET d == Decide([Eng EXCEPT !.oq = Aged(@)])
              e1 == StepSchedule([Eng EXCEPT !.oq = Aged(@)], d)
          IN (d.fresh /\ ~d.allow_async /\ output_queue # <<>>) =>
                /\ e1.err = "none"
                /\ e1.oq = <<>>
                /\ e1.pasync = 1
                /\ e1.psync = 0
                /\ err' = "none" =>
                      /\ output_queue' = <<>>
                      /\ op'.pasync = 1
                      /\ op'.psync = op'.enq]_vars

\* a step() call found an entry pending, scheduled a decision that is not
\* async-eligible, drained the entry, executed the model and processed
\* the new outputs synchronously
C31_Witness ==
    /\ op.name = "step"
    /\ op.scheduled
    /\ ~op.allow_async
    /\ err = "none"
    /\ op.executed > 0
    /\ op.pasync = 1
    /\ op.psync = 1

\* the engine of a step() call with the decision d and the sampler outputs
\* output when it reaches the final check of line 1521
AtFinalCheck(d, output) ==
    StepOutput(AtExecute(d), d, output)

\* C32: whenever step() reaches its final check with no unfinished
\* request, the one drain it performs empties output_queue: the assertion
\* of line 1526 (and that of line 1524) does not fail, and no step() call
\* returns with no unfinished request and an entry pending.
C32_FinalDrainEmptiesQueue ==
    /\ [][(op'.name = "step" /\ cfg.pipeline_parallel_size = 1) =>
            LET d == Decide([Eng EXCEPT !.oq = Aged(@)])
            IN \A output \in [1..NumOutputs(d.e, d) -> [1..Len(d.meta) -> Samples]] :
                  LET e == AtFinalCheck(d, output)
                  IN (e.err = "none" /\ ~has_unfinished_requests(e)) =>
                        /\ Len(e.oq) <= 1
                        /\ StepDrain(e).err = "none"
                        /\ StepDrain(e).oq = <<>>]_vars
    /\ []((op.name = "step" /\ err = "none" /\ ~has_unfinished_requests(Eng)) =>
            output_queue = <<>>)

\* a step() call ran an async-eligible batch whose last request was
\* finished by the callback, and drained the new entry at its final check
C32_Witness ==
    /\ op.name = "step"
    /\ err = "none"
    /\ op.allow_async
    /\ op.executed > 0
    /\ op.pasync = 2
    /\ ~has_unfinished_requests(Eng)
    /\ output_queue = <<>>

\* C33: output_queue holds at most one entry in every state between the
\* calls, so at the start and at the end of every step() call; an entry
\* that a step() call leaves in the queue was enqueued by that call under
\* an async-eligible decision, and every entry with sampler outputs was
\* enqueued under one (also after a call that failed); add_request and
\* abort_request leave the queue as it is.  So the queue never grows over
\* any sequence of calls.
C33_QueueAtMostOne ==
    /\ [](Len(output_queue) <= 1)
    /\ []((op.name = "step" /\ err = "none" /\ output_queue # <<>>) =>
            /\ op.allow_async
            /\ op.enq = 1
            /\ output_queue[1].age = 0)
    /\ [](\A k \in 1..Len(output_queue) :
            output_queue[k].outputs # <<>> => output_queue[k].adv)
    /\ [][op'.name # "step" => output_queue' = output_queue]_vars

\* a step() call with an async-eligible decision: the callback processed
\* the entry of the call before and the call left its own entry pending
C33_Witness ==
    /\ op.name = "step"
    /\ err = "none"
    /\ op.allow_async
    /\ op.executed = 1
    /\ op.pasync = 1
    /\ Len(output_queue) = 1
    /\ output_queue[1].outputs # <<>>

C35_RemainingStepsInLockstep ==
    /\ [](is_multi_step =>
            /\ err # "AssertionError"
            /\ has_remaining_steps(Eng, cached.meta) # "error"
            /\ \A g \in CachedGroups(cached) : grp[g].rem > 0)
    /\ [][(is_multi_step /\ op'.name = "step" /\ batch' # {}) =>
            LET d == Decide([Eng EXCEPT !.oq = Aged(@)])
                b == AtExecute(d)
            IN /\ batch' = CachedGroups(d)
               /\ has_remaining_steps(b, d.meta) # "error"
               /\ has_remaining_steps(finish_step(b, d.meta), d.meta) # "error"
               /\ \A g \in batch' :
                     /\ b.grp[g].rem = IF d.fresh THEN d.so.num_lookahead_slots + 1
                                       ELSE grp[g].rem
                     /\ grp'[g].rem = b.grp[g].rem - 1
                     /\ grp'[g].rem >= 0]_vars

\* a step() call that reused a cached decision for two groups and took
\* the last step from both
C35_Witness ==
    /\ is_multi_step
    /\ op.name = "step"
    /\ err = "none"
    /\ ~op.scheduled
    /\ Cardinality(batch) = 2
    /\ \A g \in batch : grp[g].rem = 0 /\ Len(grp[g].out) >= 2

\* C36: a step() call on an engine with pipeline_parallel_size > 1 fails
\* with NotImplementedError; it calls no scheduler, runs no batch, and
\* leaves the sequence groups, the schedulers, output_queue, the request
\* outputs and the cached decision as they were.
C36_PipelineParallelStepRejected ==
    [][(op'.name = "step" /\ cfg.pipeline_parallel_size > 1) =>
          /\ err' = "NotImplementedError"
          /\ ~op'.scheduled
          /\ op'.executed = 0
          /\ op'.enq = 0 /\ op'.psync = 0 /\ op'.pasync = 0
          /\ batch' = {}
          /\ UNCHANGED <<grp, sched, output_queue, request_outputs, cached>>]_vars

\* step() was rejected on an engine with two virtual engines, each with a
\* request waiting
C36_Witness ==
    /\ cfg.pipeline_parallel_size > 1
    /\ op.name = "step"
    /\ err = "NotImplementedError"
    /\ \A v \in 1..cfg.pipeline_parallel_size : sched[v].waiting # <<>>

GenerationTokensOf(st, idx) ==
    IF idx \in st.finished_before THEN 0
    ELSE IF ~group_was_prefill(st.so, idx) THEN st.meta[idx + 1].chunk
    ELSE IF st.left_prefill[idx + 1] THEN st.num_seqs[idx + 1]
    ELSE 0

RECURSIVE SumGenerationTokens(_, _)
SumGenerationTokens(st, idx) ==
    IF idx >= Len(st.meta) THEN 0
    ELSE GenerationTokensOf(st, idx) + SumGenerationTokens(st, idx + 1)

\* the statistics st report the generation tokens of the groups that were
\* not finished before the pass, and no others
StatsCountGenerated(st) ==
    /\ st.num_generation_tokens_iter >= 0
    /\ st.num_generation_tokens_iter = SumGenerationTokens(st, 0)

\* C38: the num_generation_tokens_iter of every statistics record a step()
\* call reports is num_batched_tokens less the prompt tokens of the prefill
\* groups plus one token per sequence of each group that left its prefill
\* in the step, counted over the groups that were not finished before the
\* post-processing pass (a finished group adds nothing); it is never
\* negative.
C38_GenerationTokensCounted ==
    [][(op'.name = "step" /\ cfg.pipeline_parallel_size = 1) =>
          LET d == Decide([Eng EXCEPT !.oq = Aged(@)])
          IN \A output \in [1..NumOutputs(d.e, d) -> [1..Len(d.meta) -> Samples]] :
                LET e == StepDrain(AtFinalCheck(d, output))
                IN \A k \in 1..Len(e.stats) : StatsCountGenerated(e.stats[k])]_vars

====
